---- MODULE Spec2Model ----
(***************************************************************************)
(* Hybrid and chain retrieval engines and the file watcher of codex-lens.   *)
(*                                                                         *)
(*   Spec        HybridSearchEngine.search: backend selection and the      *)
(*               parallel dispatch of _search_parallel (worker pool,       *)
(*               as_completed with the 30 s deadline, pool shutdown).      *)
(*   SpecWeights normalize_weights on weight mappings that may hold NaN,   *)
(*               infinity and None.                                        *)
(*   SpecFusion  reciprocal_rank_fusion on a results map, weights and k.   *)
(*   SpecKernel  apply_symbol_boost and filter_results_by_category on any  *)
(*               result list.                                              *)
(*   SpecRank    HybridSearchEngine.search from the results map to the     *)
(*               returned list: fusion, boost, rerankers, filter, limit.   *)
(*   SpecTag     tag_search_source applied once and again.                 *)
(*   SpecScore   scores built from cosine distances and similarities.      *)
(*   SpecCollect, SpecCollectDag                                           *)
(*               ChainSearchEngine._collect_index_paths on link graphs.    *)
(*   SpecMerge   ChainSearchEngine._merge_and_rank and its pagination.     *)
(*   SpecChain, SpecChainThreads                                           *)
(*               ChainSearchEngine: the shared worker pool, the fan-out    *)
(*               over the directory indexes and close(), for one calling   *)
(*               thread and for two.                                       *)
(*   SpecCascade ChainSearchEngine.cascade_search: the strategy chosen and *)
(*               the four cascade variants with their fallbacks.           *)
(*   SpecRequest APIReranker._request_json: the retry loop, POST by POST.  *)
(*   SpecExtract APIReranker._extract_scores_from_results on any response. *)
(*   SpecPairs   APIReranker.score_pairs: grouping by query, token-aware   *)
(*               batches, requests and the scores put back in place.       *)
(*   SpecWatcher, SpecWatcherFair                                          *)
(*               FileWatcher: the observer thread, the debounce timers,    *)
(*               flush_now, start and stop, thread by thread; the second   *)
(*               with every started thread running on.                     *)
(*   SpecFlush   FileWatcher._flush_events on a queue of any events.       *)
(*   SpecManager WatcherManager: the watcher's flushes calling             *)
(*               _handle_changes while stop() closes the indexer.          *)
(*                                                                         *)
(* Scores are exact rationals: every score of one list is an integer       *)
(* numerator over the denominator the list carries.                        *)
(***************************************************************************)
EXTENDS Integers, Sequences, FiniteSets, TLC

(***************************************************************************)
(* Bounds of the model.                                                    *)
(***************************************************************************)
\* longest result list one backend returns in the dispatch model
MaxHits == 1
\* longest result list of one source in the fusion models
MaxLen == 2
\* largest weight a source is given in the fusion models
MaxWeight == 2
\* largest score numerator of a result handed to the boost and the filter
MaxScore == 3

(***************************************************************************)
(* Values.                                                                 *)
(***************************************************************************)
SourceIds == {"exact", "fuzzy", "vector", "splade"}

\* paths a backend of the dispatch model can return
HitPaths == {"a.py"}

\* a SearchResult as far as the dispatch is concerned: its path and the
\* search_source entry of its metadata ("" = the key is absent)
Hit(p, s) == [path |-> p, search_source |-> s]

SeqsUpTo(S, n) == UNION {[1..m -> S] : m \in 0..n}

\* the result lists a backend call can return
HitLists == SeqsUpTo({Hit(p, "") : p \in HitPaths}, MaxHits)

\* the engine's Config as far as backend selection reads it; present = FALSE
\* is HybridSearchEngine(config=None)
Configs ==
    [present : {TRUE}, use_fts_fallback : BOOLEAN, enable_splade : BOOLEAN]
    \cup {[present |-> FALSE, use_fts_fallback |-> FALSE, enable_splade |-> TRUE]}

\* the keyword arguments of search() that select the backends
SearchArgs ==
    [pure_vector : BOOLEAN, enable_vector : BOOLEAN,
     enable_splade : BOOLEAN, enable_fuzzy : BOOLEAN]

NoArgs ==
    [pure_vector |-> FALSE, enable_vector |-> FALSE,
     enable_splade |-> FALSE, enable_fuzzy |-> FALSE]

VARIABLES
    config,        \* self._config
    dep_ok,        \* what check_splade_available() answers in this process
    pc,            \* position of the search() call
    args,          \* arguments of the running search() call
    backends,      \* the backends dict of search(): the set of its keys
    fstate,        \* state of each submitted future
    outcome,       \* how each backend call ended
    returned,      \* the list each backend call returned
    yielded,       \* futures as_completed has handed to the loop body
    results_map,   \* results_map of _search_parallel
    expired,       \* the 30 s of as_completed(timeout=30.0) have passed
    late,          \* futures that finished after the 30 s had passed
    timed_out,     \* as_completed raised FuturesTimeoutError
    order,         \* the sources of the results map, in its iteration order
    rmap,          \* the results map handed to the fusion: source -> list
    weights,       \* the weights mapping of the caller
    rrf_k,         \* the constant k of the fusion
    fpc,           \* position of the fusion call
    nweights,      \* what normalize_weights returned
    fused,         \* the fused list: [den, items]
    kin,           \* the list handed to a kernel operation
    kout,          \* the list the kernel operation returned
    kparam,        \* the operation applied and its parameters
    call,          \* a search() call after the dispatch: config and arguments
    result         \* the list search() returned

hvars == <<config, dep_ok, pc, args, backends, fstate, outcome, returned,
           yielded, results_map, expired, late, timed_out>>

fvars == <<order, rmap, weights, rrf_k, fpc, nweights, fused>>

kvars == <<kin, kout, kparam>>

rvars == <<call, result>>

VARIABLES
    tin,           \* the list handed to tag_search_source
    torig,         \* that list as the caller built it
    tout,          \* the list tag_search_source returned
    tagain,        \* the list returned by tagging tout once more
    tsrc,          \* the source ids of the first and of the second tagging
    tpc            \* position of the tagging calls

tvars == <<tin, torig, tout, tagain, tsrc, tpc>>

VARIABLES
    vkind,         \* the code path that builds results from vector distances
    vdists,        \* the cosine distances of the candidates, in units of 1/DistDen
    vscores,       \* the scores handed to SearchResult, in units of 1/DistDen
    vbuilt,        \* whether the SearchResult objects were built
    vpc            \* position of the scoring

svars == <<vkind, vdists, vscores, vbuilt, vpc>>

VARIABLES
    links,         \* the subdirs table of each index: the indexes it links, in table order
    missing,       \* the index paths that do not exist
    unreadable,    \* the indexes whose subdirs table cannot be read
    depth,         \* the depth argument
    collected,     \* the list _collect_index_paths returned
    visited,       \* the visited set when it returned
    ncalls,        \* how many times _collect_recursive was entered
    cpc            \* position of the _collect_index_paths call

cvars == <<links, missing, unreadable, depth, collected, visited, ncalls, cpc>>

VARIABLES
    mresults,      \* the results handed to _merge_and_rank
    mlimit,        \* the limit argument
    moffset,       \* the offset argument
    mpage,         \* the page _merge_and_rank returned
    mnext,         \* the page returned for offset + limit
    mpc            \* position of the _merge_and_rank calls

mvars == <<mresults, mlimit, moffset, mpage, mnext, mpc>>

VARIABLES
    executor,      \* self._executor: 0 is None, else the number of a pool
    pools,         \* the ThreadPoolExecutors created so far: max_workers and whether live
    callers,       \* the threads that call the engine
    dirs,          \* the index paths a search fans out over
    th             \* each calling thread: its position, its call and what the call returned

evars == <<executor, pools, callers, dirs, th>>

VARIABLES
    gcall,         \* the arguments of the call and the engine's config
    genv,          \* what the indexes, embedders and the reranker hold and do during the call
    gran,          \* the cascade variants entered by the call, in order
    gresult,       \* the ChainSearchResult returned: results and stats.errors
    gpc            \* position of the call

gvars == <<gcall, genv, gran, gresult, gpc>>

VARIABLES
    max_retries_arg, \* the max_retries handed to APIReranker(...)
    max_retries,   \* self.max_retries
    attempt,       \* the loop variable of _request_json
    posts,         \* the responses to the POSTs issued so far, in order
    slept,         \* the attempts after which _sleep_backoff was called
    outcome_json   \* how the call ended: running, returned, or the error raised

avars == <<max_retries_arg, max_retries, attempt, posts, slept, outcome_json>>

VARIABLES
    presults,      \* the 'results' value of the response
    pexpected,     \* expected
    pout,          \* what the call returned or that it raised
    ppc            \* position of the call

pvars == <<presults, pexpected, pout, ppc>>

VARIABLES
    bpairs,        \* the (query, doc) pairs
    bmax_input_tokens, \* self._max_input_tokens
    bfail,         \* the number of the request that fails, 0 when none does
    bbatches,      \* the batches made for each query, in order
    brequests,     \* the payloads handed to _request_json, in order
    bscores,       \* the list returned
    bpc            \* position of the call

bvars == <<bpairs, bmax_input_tokens, bfail, bbatches, brequests, bscores, bpc>>

VARIABLES
    w_running,     \* FileWatcher._running
    observer,      \* the watchdog observer thread: "none", "alive" or "stopped"
    event_queue,   \* FileWatcher._event_queue: the ids of the queued events
    event_path,    \* the path of every event handed to _on_raw_event, by id
    flush_timer,   \* FileWatcher._flush_timer: the id of a timer, 0 for None
    timers,        \* the state of the Timer started with each event
    elapsed,       \* the number of events queued at least debounce_ms ago
    wthreads,      \* position of the observer thread, the flush_now caller and the stop caller
    flushes,       \* every flush that removed events: its input, its batch, its thread
    api_calls,     \* the start(), stop() and flush_now() calls made: count and last one
    manager        \* WatcherManager: _running, _indexer and the state of the indexer

wvars == <<w_running, observer, event_queue, event_path, flush_timer, timers, elapsed, wthreads, flushes, api_calls, manager>>

\* the variables of the models that follow the hybrid engine's
xvars == <<tvars, svars, cvars, mvars, evars, gvars, avars, pvars, bvars, wvars>>

vars == <<hvars, fvars, kvars, rvars, xvars>>

\* the variables the dispatch leaves alone
HOther == <<fvars, kvars, rvars, xvars>>

\* the variables the fusion leaves alone
FOther == <<hvars, kvars, rvars, xvars>>

\* the variables the boost and the filter leave alone
KOther == <<hvars, fvars, rvars, xvars>>

\* the variables the ranking chain of search() leaves alone
ROther == <<hvars, kvars, xvars>>

(***************************************************************************)
(* Backend selection, search() lines 164-229.                              *)
(***************************************************************************)
splade_available(cfg, dep) ==
    IF cfg.present /\ cfg.use_fts_fallback THEN FALSE
    ELSE IF cfg.present /\ ~cfg.enable_splade THEN FALSE
    ELSE dep

FtsBackends(a) ==
    {"exact"}
    \cup (IF a.enable_fuzzy THEN {"fuzzy"} ELSE {})
    \cup (IF a.enable_vector THEN {"vector"} ELSE {})

SpladeBackends(a) ==
    {"splade"} \cup (IF a.enable_vector THEN {"vector"} ELSE {})

\* the explicit SPLADE branch without its FTS fallback
SelectBackendsNoFallback(a, sa) ==
    IF a.pure_vector
    THEN (IF a.enable_vector THEN {"vector"} ELSE {"exact"})
    ELSE IF a.enable_splade
    THEN SpladeBackends(a)
    ELSE (IF sa THEN SpladeBackends(a) ELSE FtsBackends(a))

\* pure_vector without enable_vector selecting nothing instead of falling
\* back to exact
SelectBackendsNoExactFallback(a, sa) ==
    IF a.pure_vector
    THEN (IF a.enable_vector THEN {"vector"} ELSE {})
    ELSE IF sa THEN SpladeBackends(a) ELSE FtsBackends(a)

SelectBackends(a, sa) ==
    IF a.pure_vector
    THEN (IF a.enable_vector THEN {"vector"} ELSE {"exact"})
    ELSE IF a.enable_splade
    THEN (IF sa THEN SpladeBackends(a) ELSE FtsBackends(a))
    ELSE (IF sa THEN SpladeBackends(a) ELSE FtsBackends(a))

(***************************************************************************)
(* tag_search_source: a copy of the list with metadata.search_source = s.  *)
(***************************************************************************)
\* a tagging that keeps the search_source a result already carries
TagKeepExisting(results, s) ==
    [i \in DOMAIN results |->
        IF results[i].search_source = "" THEN [results[i] EXCEPT !.search_source = s]
        ELSE results[i]]

tag_search_source(results, s) ==
    [i \in DOMAIN results |-> [results[i] EXCEPT !.search_source = s]]

(***************************************************************************)
(* The dispatch.                                                           *)
(***************************************************************************)
NoFutures == [b \in SourceIds |-> "none"]
NoOutcome == [b \in SourceIds |-> "none"]
NoReturn == [b \in SourceIds |-> <<>>]

\* results_map is a function on the sources recorded so far
EmptyMap == [b \in {} |-> <<>>]

MapPut(m, b, v) == [x \in DOMAIN m \cup {b} |-> IF x = b THEN v ELSE m[x]]

\* lines 504-506: every key of backends not yet in results_map gets []
FillMissing(m, bs) ==
    [x \in DOMAIN m \cup bs |-> IF x \in DOMAIN m THEN m[x] ELSE <<>>]

\* lines 501-502: Future.cancel() cancels a future that has not started and
\* leaves a running or finished one as it is
CancelFuture(st) == IF st = "pending" THEN "cancelled" ELSE st

(***************************************************************************)
(* Values of the fusion kernel.                                            *)
(***************************************************************************)
\* paths of the fusion models: a code file, a doc file, a file of neither
Paths == {"a.py", "d.md", "x.dat"}

\* sources of the fusion models
FusionSources == {"exact", "vector"}

\* a weight: a finite number n/d, NaN, infinity, or None
Num(n) == [kind |-> "num", n |-> n, d |-> 1]
NaN == [kind |-> "nan", n |-> 0, d |-> 1]
Inf == [kind |-> "inf", n |-> 0, d |-> 1]
None == [kind |-> "none", n |-> 0, d |-> 1]

FiniteWeights == {Num(n) : n \in -1..MaxWeight}
AnyWeights == FiniteWeights \cup {NaN, Inf, None}

\* a result as a backend hands it to the fusion
Item(p, sym) == [path |-> p, symbol_name |-> sym]

\* a result with its score (the numerator over the list's denominator) and
\* the metadata keys the kernel writes; boosted = FALSE is "no boosted key"
Scored(p, sym, n) ==
    [path |-> p, symbol_name |-> sym, score |-> n,
     boosted |-> FALSE, original_fusion_score |-> 0]

\* sequences without repetition over S, up to length n
DistinctSeqs(S, n) ==
    {q \in SeqsUpTo(S, n) : \A i, j \in DOMAIN q : i # j => q[i] # q[j]}

EmptyList == [den |-> 1, items |-> <<>>]

\* a boost factor as a fraction; 3/2 is the default 1.5
Factor(n, d) == [n |-> n, d |-> d]

\* no kernel operation applied yet
NoParam == [op |-> "none", factor |-> Factor(1, 1), intent |-> "MIXED",
            allow_mixed |-> FALSE]

\* the engine without a config, and search() with its defaults
NoRankConfig ==
    [present |-> FALSE, enable_reranking |-> FALSE,
     enable_cross_encoder_rerank |-> FALSE, enable_category_filter |-> TRUE]

NoCall ==
    [config |-> NoRankConfig, pure_vector |-> FALSE, limit |-> 20,
     intent |-> "MIXED"]

KIdle ==
    /\ kin = EmptyList
    /\ kout = EmptyList
    /\ kparam = NoParam

RIdle ==
    /\ call = NoCall
    /\ result = EmptyList

FIdle ==
    /\ order = <<>>
    /\ rmap = EmptyMap
    /\ weights = EmptyMap
    /\ rrf_k = 0
    /\ fpc = "off"
    /\ nweights = EmptyMap
    /\ fused = EmptyList

\* the threads that may call one ChainSearchEngine
Threads == {"t1", "t2"}

\* a thread that has made no call
NoThread ==
    [pc |-> "idle", kind |-> "none", workers |-> 0, mine |-> 0,
     queued |-> {}, active |-> {}, finished |-> {}, failed |-> {},
     raised |-> {}, got |-> {}, errors |-> {}, calls |-> 0]

NoThreads == [t \in Threads |-> NoThread]

TIdle ==
    /\ tin = <<>>
    /\ torig = <<>>
    /\ tout = <<>>
    /\ tagain = <<>>
    /\ tsrc = <<>>
    /\ tpc = "off"

VIdle ==
    /\ vkind = "none"
    /\ vdists = <<>>
    /\ vscores = <<>>
    /\ vbuilt = FALSE
    /\ vpc = "off"

CIdle ==
    /\ links = <<>>
    /\ missing = {}
    /\ unreadable = {}
    /\ depth = 0
    /\ collected = <<>>
    /\ visited = {}
    /\ ncalls = 0
    /\ cpc = "off"

MIdle ==
    /\ mresults = <<>>
    /\ mlimit = 0
    /\ moffset = 0
    /\ mpage = <<>>
    /\ mnext = <<>>
    /\ mpc = "off"

EIdle ==
    /\ executor = 0
    /\ pools = <<>>
    /\ callers = {}
    /\ dirs = {}
    /\ th = NoThreads

GIdle ==
    /\ gcall = <<>>
    /\ genv = <<>>
    /\ gran = <<>>
    /\ gresult = <<>>
    /\ gpc = "idle"

AIdle ==
    /\ max_retries_arg = 0
    /\ max_retries = 0
    /\ attempt = 0
    /\ posts = <<>>
    /\ slept = {}
    /\ outcome_json = "idle"

PIdle ==
    /\ presults = <<>>
    /\ pexpected = 0
    /\ pout = <<>>
    /\ ppc = "idle"

BIdle ==
    /\ bpairs = <<>>
    /\ bmax_input_tokens = 0
    /\ bfail = 0
    /\ bbatches = <<>>
    /\ brequests = <<>>
    /\ bscores = <<>>
    /\ bpc = "idle"

WIdle ==
    /\ w_running = FALSE
    /\ observer = "none"
    /\ event_queue = <<>>
    /\ event_path = <<>>
    /\ flush_timer = 0
    /\ timers = <<>>
    /\ elapsed = 0
    /\ wthreads = <<>>
    /\ flushes = <<>>
    /\ api_calls = <<>>
    /\ manager = <<>>

XIdle == TIdle /\ VIdle /\ CIdle /\ MIdle /\ EIdle /\ GIdle /\ AIdle /\ PIdle /\ BIdle /\ WIdle

\* what the model of tag_search_source leaves alone
TOther == <<hvars, fvars, kvars, rvars, svars, cvars, mvars, evars, gvars, avars, pvars, bvars, wvars>>

TRest == VIdle /\ CIdle /\ MIdle /\ EIdle /\ GIdle /\ AIdle /\ PIdle /\ BIdle /\ WIdle

\* what the model of the vector scores leaves alone
VOther == <<hvars, fvars, kvars, rvars, tvars, cvars, mvars, evars, gvars, avars, pvars, bvars, wvars>>

VRest == TIdle /\ CIdle /\ MIdle /\ EIdle /\ GIdle /\ AIdle /\ PIdle /\ BIdle /\ WIdle

\* what the model of _collect_index_paths leaves alone
COther == <<hvars, fvars, kvars, rvars, tvars, svars, mvars, evars, gvars, avars, pvars, bvars, wvars>>

CRest == TIdle /\ VIdle /\ MIdle /\ EIdle /\ GIdle /\ AIdle /\ PIdle /\ BIdle /\ WIdle

\* what the model of _merge_and_rank leaves alone
MOther == <<hvars, fvars, kvars, rvars, tvars, svars, cvars, evars, gvars, avars, pvars, bvars, wvars>>

MRest == TIdle /\ VIdle /\ CIdle /\ EIdle /\ GIdle /\ AIdle /\ PIdle /\ BIdle /\ WIdle

\* what the model of the chain engine's worker pool leaves alone
EOther == <<hvars, fvars, kvars, rvars, tvars, svars, cvars, mvars, gvars, avars, pvars, bvars, wvars>>

ERest == TIdle /\ VIdle /\ CIdle /\ MIdle /\ GIdle /\ AIdle /\ PIdle /\ BIdle /\ WIdle

\* what the model of a cascade_search call leaves alone
GOther == <<hvars, fvars, kvars, rvars, tvars, svars, cvars, mvars, evars, avars, pvars, bvars, wvars>>

GRest == TIdle /\ VIdle /\ CIdle /\ MIdle /\ EIdle /\ AIdle /\ PIdle /\ BIdle /\ WIdle

\* what the model of one _request_json call of the API reranker leaves alone
AOther == <<hvars, fvars, kvars, rvars, tvars, svars, cvars, mvars, evars, gvars, pvars, bvars, wvars>>

ARest == TIdle /\ VIdle /\ CIdle /\ MIdle /\ EIdle /\ GIdle /\ PIdle /\ BIdle /\ WIdle

\* what the model of one _extract_scores_from_results call leaves alone
POther == <<hvars, fvars, kvars, rvars, tvars, svars, cvars, mvars, evars, gvars, avars, bvars, wvars>>

PRest == TIdle /\ VIdle /\ CIdle /\ MIdle /\ EIdle /\ GIdle /\ AIdle /\ BIdle /\ WIdle

\* what the model of one score_pairs call of the API reranker leaves alone
BOther == <<hvars, fvars, kvars, rvars, tvars, svars, cvars, mvars, evars, gvars, avars, pvars, wvars>>

BRest == TIdle /\ VIdle /\ CIdle /\ MIdle /\ EIdle /\ GIdle /\ AIdle /\ PIdle /\ WIdle

\* what the model of the file watcher and its manager leaves alone
WOther == <<hvars, fvars, kvars, rvars, tvars, svars, cvars, mvars, evars, gvars, avars, pvars, bvars>>

WRest == TIdle /\ VIdle /\ CIdle /\ MIdle /\ EIdle /\ GIdle /\ AIdle /\ PIdle /\ BIdle

HIdle ==
    /\ config = [present |-> FALSE, use_fts_fallback |-> FALSE,
                 enable_splade |-> TRUE]
    /\ dep_ok = FALSE
    /\ pc = "off"
    /\ args = NoArgs
    /\ backends = {}
    /\ fstate = NoFutures
    /\ outcome = NoOutcome
    /\ returned = NoReturn
    /\ yielded = {}
    /\ results_map = EmptyMap
    /\ expired = FALSE
    /\ late = {}
    /\ timed_out = FALSE

HInit ==
    /\ config \in Configs
    /\ dep_ok \in BOOLEAN
    /\ pc = "idle"
    /\ args = NoArgs
    /\ backends = {}
    /\ fstate = NoFutures
    /\ outcome = NoOutcome
    /\ returned = NoReturn
    /\ yielded = {}
    /\ results_map = EmptyMap
    /\ expired = FALSE
    /\ late = {}
    /\ timed_out = FALSE

\* search() on an empty index file: lines 148-152 return [] before any
\* backend is selected
SearchEmptyIndex ==
    /\ pc = "idle"
    /\ pc' = "done_empty"
    /\ UNCHANGED <<config, dep_ok, args, backends, fstate, outcome, returned,
                   yielded, results_map, expired, late, timed_out>>
    /\ UNCHANGED HOther

\* search() up to the end of the submit block of _search_parallel
\* (lines 164-233, 443-478): every selected backend is submitted
Search(a) ==
    /\ pc = "idle"
    /\ args' = a
    /\ backends' = SelectBackends(a, splade_available(config, dep_ok))
    /\ fstate' = [b \in SourceIds |->
                    IF b \in backends' THEN "pending" ELSE "none"]
    /\ pc' = "collect"
    /\ UNCHANGED <<config, dep_ok, outcome, returned, yielded, results_map,
                   expired, late, timed_out>>
    /\ UNCHANGED HOther

\* a pool worker takes the work item of b
Start(b) ==
    /\ pc \in {"collect", "shutdown"}
    /\ fstate[b] = "pending"
    /\ fstate' = [fstate EXCEPT ![b] = "running"]
    /\ UNCHANGED <<config, dep_ok, pc, args, backends, outcome, returned,
                   yielded, results_map, expired, late, timed_out>>
    /\ UNCHANGED HOther

\* the backend call of b ends: it returns its hits ("ok"), its own
\* try/except absorbs an error and it returns [] ("absorbed", lines 528-535),
\* or an exception leaves the call and is stored in the future ("raise")
Finish(b, how, hits) ==
    /\ pc \in {"collect", "shutdown"}
    /\ fstate[b] = "running"
    /\ how = "ok" \/ hits = <<>>
    /\ fstate' = [fstate EXCEPT ![b] = "finished"]
    /\ outcome' = [outcome EXCEPT ![b] = how]
    /\ returned' = [returned EXCEPT ![b] = hits]
    /\ late' = IF expired THEN late \cup {b} ELSE late
    /\ UNCHANGED <<config, dep_ok, pc, args, backends, yielded, results_map,
                   expired, timed_out>>
    /\ UNCHANGED HOther

\* the clock passes the deadline of as_completed(timeout=30.0)
Expire ==
    /\ pc = "collect"
    /\ ~expired
    /\ expired' = TRUE
    /\ UNCHANGED <<config, dep_ok, pc, args, backends, fstate, outcome,
                   returned, yielded, results_map, late, timed_out>>
    /\ UNCHANGED HOther

\* the loop body without its try/except: the exception of future.result()
\* leaves _search_parallel
CollectOneUncaught(m, b, how, hits) ==
    IF how = "raise"
    THEN [map |-> m, raised |-> TRUE]
    ELSE [map |-> MapPut(m, b, tag_search_source(hits, b)), raised |-> FALSE]

\* the body of the as_completed loop, lines 483-497: future.result() hands
\* back the list or re-raises the exception of the call, which the except
\* clause of line 495 turns into an empty list
CollectOne(m, b, how, hits) ==
    IF how = "raise"
    THEN [map |-> MapPut(m, b, <<>>), raised |-> FALSE]
    ELSE [map |-> MapPut(m, b, tag_search_source(hits, b)), raised |-> FALSE]

\* one iteration of the as_completed loop, lines 482-497
Collect(b) ==
    /\ pc = "collect"
    /\ fstate[b] = "finished"
    /\ b \notin yielded
    /\ yielded' = yielded \cup {b}
    /\ LET r == CollectOne(results_map, b, outcome[b], returned[b]) IN
         /\ results_map' = r.map
         /\ pc' = IF r.raised THEN "raised"
                  ELSE IF yielded' = backends THEN "shutdown" ELSE "collect"
    /\ UNCHANGED <<config, dep_ok, args, backends, fstate, outcome, returned,
                   expired, late, timed_out>>
    /\ UNCHANGED HOther

\* as_completed raises FuturesTimeoutError, lines 498-506: every future
\* that finished before the deadline has been yielded by then
Timeout ==
    /\ pc = "collect"
    /\ expired
    /\ yielded # backends
    /\ \A b \in backends \ yielded : fstate[b] = "finished" => b \in late
    /\ timed_out' = TRUE
    /\ fstate' = [b \in SourceIds |-> CancelFuture(fstate[b])]
    /\ results_map' = FillMissing(results_map, backends)
    /\ pc' = "shutdown"
    /\ UNCHANGED <<config, dep_ok, args, backends, outcome, returned, yielded,
                   expired, late>>
    /\ UNCHANGED HOther

\* an executor left with shutdown(wait=False): line 513 is reached while
\* work items are still queued or running
ReturnWithoutWaiting ==
    /\ pc = "shutdown"
    /\ pc' = "done"
    /\ UNCHANGED <<config, dep_ok, args, backends, fstate, outcome, returned,
                   yielded, results_map, expired, late, timed_out>>
    /\ UNCHANGED HOther

\* the end of "with ThreadPoolExecutor(...)": shutdown(wait=True) returns
\* when no work item is queued or running; then line 513 returns
Return ==
    /\ pc = "shutdown"
    /\ \A b \in backends : fstate[b] \in {"finished", "cancelled"}
    /\ pc' = "done"
    /\ UNCHANGED <<config, dep_ok, args, backends, fstate, outcome, returned,
                   yielded, results_map, expired, late, timed_out>>
    /\ UNCHANGED HOther

Next ==
    \/ SearchEmptyIndex
    \/ \E a \in SearchArgs : Search(a)
    \/ \E b \in SourceIds : Start(b)
    \/ \E b \in SourceIds, how \in {"ok", "absorbed", "raise"},
          hits \in HitLists : Finish(b, how, hits)
    \/ Expire
    \/ \E b \in SourceIds : Collect(b)
    \/ Timeout
    \/ Return

Init == HInit /\ FIdle /\ KIdle /\ RIdle /\ XIdle

Spec == Init /\ [][Next]_vars

(***************************************************************************)
(* Claims about the dispatch.                                              *)
(***************************************************************************)
Failed(b) == outcome[b] \in {"absorbed", "raise"}

\* C1: _search_parallel never raises; when it returns, the keys of
\* results_map are exactly the selected backends, every backend whose call
\* failed is mapped to the empty list, and every backend whose call
\* succeeded and was collected is mapped to its own results (tagged with
\* its source).
C1_FailureContained ==
    /\ pc # "raised"
    /\ pc = "done" =>
         /\ DOMAIN results_map = backends
         /\ \A b \in backends :
              /\ Failed(b) => results_map[b] = <<>>
              /\ (outcome[b] = "ok" /\ b \in yielded) =>
                    /\ Len(results_map[b]) = Len(returned[b])
                    /\ \A i \in 1..Len(returned[b]) :
                          /\ results_map[b][i].path = returned[b][i].path
                          /\ results_map[b][i].search_source = b

\* a returned call in which one backend raised, one absorbed its error and
\* one delivered hits
C1_Witness ==
    /\ pc = "done"
    /\ \E b1, b2, b3 \in backends :
         /\ outcome[b1] = "raise"
         /\ outcome[b2] = "absorbed"
         /\ outcome[b3] = "ok" /\ b3 \in yielded /\ results_map[b3] # <<>>

\* C2: when the collection deadline expires, every backend that has not
\* completed is cancelled and recorded with an empty list, the results of
\* the backends collected before the deadline are kept, and the call does
\* not raise.
C2_StragglersCancelled ==
    timed_out =>
        /\ pc # "raised"
        /\ \A b \in backends \ yielded :
             /\ fstate[b] = "cancelled"
             /\ results_map[b] = <<>>
        /\ \A b \in yielded :
             outcome[b] = "ok" => results_map[b] = tag_search_source(returned[b], b)

\* what the claim says SPLADE availability is
C3_Available ==
    /\ ~(config.present /\ config.use_fts_fallback)
    /\ ~(config.present /\ ~config.enable_splade)
    /\ dep_ok

\* C3: the dispatched backend set is {vector} for pure_vector with
\* enable_vector, {exact} for pure_vector without it; otherwise {splade}
\* (plus vector iff enable_vector) when SPLADE is available, and {exact}
\* (plus fuzzy iff enable_fuzzy, plus vector iff enable_vector) when not.
C3_BackendSet ==
    pc \in {"collect", "shutdown", "done"} =>
        /\ (args.pure_vector /\ args.enable_vector) => backends = {"vector"}
        /\ (args.pure_vector /\ ~args.enable_vector) => backends = {"exact"}
        /\ (~args.pure_vector /\ C3_Available) =>
             /\ "splade" \in backends
             /\ "vector" \in backends <=> args.enable_vector
             /\ backends \subseteq {"splade", "vector"}
        /\ (~args.pure_vector /\ ~C3_Available) =>
             /\ "exact" \in backends
             /\ "fuzzy" \in backends <=> args.enable_fuzzy
             /\ "vector" \in backends <=> args.enable_vector
             /\ "splade" \notin backends
        /\ \A b \in SourceIds : fstate[b] # "none" <=> b \in backends

\* SPLADE was asked for explicitly and is not available: the FTS fallback
\* with all three backends is dispatched
C3_Witness ==
    /\ pc = "collect"
    /\ args.enable_splade /\ ~args.pure_vector /\ ~C3_Available
    /\ backends = {"exact", "fuzzy", "vector"}
    /\ \A b \in backends : fstate[b] = "pending"

\* C38: when _search_parallel returns, none of the backend tasks it
\* submitted is still executing (or still waiting for a worker): it returns
\* only after every started backend call has finished, also when the
\* collection deadline expired.
C38_NoTaskOutlivesReturn ==
    pc = "done" =>
        \A b \in backends :
            /\ fstate[b] \in {"finished", "cancelled"}
            /\ fstate[b] = "finished" => outcome[b] # "none"

\* a call that returned after its deadline expired, with a backend call that
\* was running at the deadline and ended after it
C38_Witness ==
    /\ pc = "done"
    /\ timed_out
    /\ \E b \in backends : b \in late /\ b \notin yielded /\ fstate[b] = "finished"

\* C39: the backend set selected by search() is never empty (the pool is
\* created with max_workers = len(backends) >= 1), never holds both splade
\* and exact, and holds fuzzy only together with exact.
C39_BackendSetShape ==
    pc \in {"collect", "shutdown", "done"} =>
        /\ backends # {}
        /\ Cardinality(backends) >= 1
        /\ ~({"splade", "exact"} \subseteq backends)
        /\ "fuzzy" \in backends => "exact" \in backends

\* pure_vector without enable_vector: the only branch that selects neither
\* vector nor splade nor the FTS set, and it selects exact
C39_Witness ==
    /\ pc = "collect"
    /\ args.pure_vector /\ ~args.enable_vector /\ args.enable_fuzzy
    /\ backends = {"exact"}

(***************************************************************************)
(* normalize_weights.                                                      *)
(***************************************************************************)
RECURSIVE SumNum(_, _)
\* the sum of the numeric entries of w over S; None counts as absent
SumNum(w, S) ==
    IF S = {} THEN 0
    ELSE LET s == CHOOSE x \in S : TRUE IN
         (IF w[s].kind = "num" THEN w[s].n ELSE 0) + SumNum(w, S \ {s})

\* float addition: NaN absorbs everything, then infinity
TotalKind(w) ==
    IF \E s \in DOMAIN w : w[s].kind = "nan" THEN "nan"
    ELSE IF \E s \in DOMAIN w : w[s].kind = "inf" THEN "inf"
    ELSE "num"

\* normalize_weights that divides whenever the total is not zero
NormalizeWeightsNoSignCheck(w) ==
    LET total == SumNum(w, DOMAIN w) IN
    IF TotalKind(w) # "num" \/ total = 0
    THEN [s \in DOMAIN w |-> w[s]]
    ELSE [s \in DOMAIN w |->
            IF w[s].kind = "num"
            THEN [kind |-> "num", n |-> w[s].n, d |-> w[s].d * total]
            ELSE w[s]]

\* a total that is not finite or not strictly positive: a copy of the
\* input; otherwise every weight divided by the total
normalize_weights(w) ==
    LET total == SumNum(w, DOMAIN w) IN
    IF TotalKind(w) # "num" \/ total <= 0
    THEN [s \in DOMAIN w |-> w[s]]
    ELSE [s \in DOMAIN w |->
            IF w[s].kind = "num"
            THEN [kind |-> "num", n |-> w[s].n, d |-> w[s].d * total]
            ELSE w[s]]

(***************************************************************************)
(* reciprocal_rank_fusion.                                                 *)
(***************************************************************************)
RECURSIVE Prod(_, _)
Prod(k, r) == IF r = 0 THEN 1 ELSE (k + r) * Prod(k, r - 1)

\* the common denominator of 1/(k+1) .. 1/(k+MaxLen)
Pk(k) == Prod(k, MaxLen)

\* the denominator the normalized weights share
WeightDen(nw) ==
    IF DOMAIN nw = {} THEN 1 ELSE (nw[CHOOSE s \in DOMAIN nw : TRUE]).d

\* the accumulator of the fusion: paths in the order they were first met,
\* the score accumulated per path, the representative result per path
EmptyAcc ==
    [paths |-> <<>>, score |-> [p \in Paths |-> 0],
     rep |-> [p \in Paths |-> Item(p, "")]]

\* one result at rank r adds wn / (k + r) to its path
Contribute(acc, item, r, wn, k) ==
    LET p == item.path
        met == \E i \in DOMAIN acc.paths : acc.paths[i] = p
    IN  [paths |-> IF met THEN acc.paths ELSE Append(acc.paths, p),
         score |-> [acc.score EXCEPT ![p] = @ + wn * (Pk(k) \div (k + r))],
         rep |-> IF met THEN acc.rep ELSE [acc.rep EXCEPT ![p] = item]]

RECURSIVE AccSourceAllRanks(_, _, _, _, _, _)
\* one source, every occurrence of a path contributing
AccSourceAllRanks(list, r, wn, k, seen, acc) ==
    IF r > Len(list) THEN acc
    ELSE AccSourceAllRanks(list, r + 1, wn, k, seen,
                           Contribute(acc, list[r], r, wn, k))

RECURSIVE AccSource(_, _, _, _, _, _)
\* one source: its results by rank, a path met before in this source skipped
AccSource(list, r, wn, k, seen, acc) ==
    IF r > Len(list) THEN acc
    ELSE IF list[r].path \in seen
    THEN AccSource(list, r + 1, wn, k, seen, acc)
    ELSE AccSource(list, r + 1, wn, k, seen \cup {list[r].path},
                   Contribute(acc, list[r], r, wn, k))

RECURSIVE AccAllNoSkip(_, _, _, _, _, _)
\* all sources in the map's order, a source of weight 0 included
AccAllNoSkip(ord, i, m, nw, k, acc) ==
    IF i > Len(ord) THEN acc
    ELSE AccAllNoSkip(ord, i + 1, m, nw, k,
                      AccSource(m[ord[i]], 1, nw[ord[i]].n, k, {}, acc))

RECURSIVE AccAll(_, _, _, _, _, _)
\* all sources in the map's order; a source of weight 0 is skipped
AccAll(ord, i, m, nw, k, acc) ==
    IF i > Len(ord) THEN acc
    ELSE IF nw[ord[i]].n = 0
    THEN AccAll(ord, i + 1, m, nw, k, acc)
    ELSE AccAll(ord, i + 1, m, nw, k,
                AccSource(m[ord[i]], 1, nw[ord[i]].n, k, {}, acc))

\* x put at the front of the elements whose score is not larger
InsertDescUnstable(sorted, x) ==
    LET pos == Cardinality({i \in DOMAIN sorted : sorted[i].score > x.score})
    IN  SubSeq(sorted, 1, pos) \o <<x>> \o SubSeq(sorted, pos + 1, Len(sorted))

\* x put behind every element whose score is not smaller
InsertDesc(sorted, x) ==
    LET pos == Cardinality({i \in DOMAIN sorted : sorted[i].score >= x.score})
    IN  SubSeq(sorted, 1, pos) \o <<x>> \o SubSeq(sorted, pos + 1, Len(sorted))

RECURSIVE SortDescFrom(_, _, _)
SortDescFrom(items, i, sorted) ==
    IF i > Len(items) THEN sorted
    ELSE SortDescFrom(items, i + 1, InsertDesc(sorted, items[i]))

\* list.sort(key=score, reverse=True): stable
SortDesc(items) == SortDescFrom(items, 1, <<>>)

\* the fused list before it is sorted: one result per path met
FusedItems(acc) ==
    [i \in DOMAIN acc.paths |->
        Scored(acc.paths[i], acc.rep[acc.paths[i]].symbol_name,
               acc.score[acc.paths[i]])]

reciprocal_rank_fusion(ord, m, w, k) ==
    LET nw == normalize_weights(w)
        acc == AccAll(ord, 1, m, nw, k, EmptyAcc)
    IN  [den |-> WeightDen(nw) * Pk(k), items |-> SortDesc(FusedItems(acc))]

(***************************************************************************)
(* SpecWeights: normalize_weights applied to any weight mapping.           *)
(***************************************************************************)
WeightSources == {"exact", "fuzzy", "vector"}

WInit ==
    /\ HIdle
    /\ XIdle
    /\ KIdle
    /\ RIdle
    /\ order = <<>>
    /\ rmap = EmptyMap
    /\ \E S \in SUBSET WeightSources : weights \in [S -> AnyWeights]
    /\ rrf_k = 0
    /\ fpc = "weights"
    /\ nweights = EmptyMap
    /\ fused = EmptyList

\* normalized = normalize_weights(weights)
Normalize ==
    /\ fpc = "weights"
    /\ nweights' = normalize_weights(weights)
    /\ fpc' = "normalized"
    /\ UNCHANGED <<order, rmap, weights, rrf_k, fused>>
    /\ UNCHANGED FOther

SpecWeights == WInit /\ [][Normalize]_vars

(***************************************************************************)
(* SpecFusion: reciprocal_rank_fusion applied to a results map.            *)
(***************************************************************************)
\* the values of k the model fuses with: small ones and the default
RrfKs == {1, 60}

ItemLists == SeqsUpTo({Item(p, "") : p \in Paths}, MaxLen)

FInit ==
    /\ HIdle
    /\ XIdle
    /\ KIdle
    /\ RIdle
    /\ order \in DistinctSeqs(FusionSources, Cardinality(FusionSources))
    /\ rmap \in [{order[i] : i \in DOMAIN order} -> ItemLists]
    /\ weights \in [{order[i] : i \in DOMAIN order} -> FiniteWeights]
    /\ rrf_k \in RrfKs
    /\ fpc = "input"
    /\ nweights = EmptyMap
    /\ fused = EmptyList

\* fused = reciprocal_rank_fusion(results_map, weights, k)
Fuse ==
    /\ fpc = "input"
    /\ nweights' = normalize_weights(weights)
    /\ fused' = reciprocal_rank_fusion(order, rmap, weights, rrf_k)
    /\ fpc' = "fused"
    /\ UNCHANGED <<order, rmap, weights, rrf_k>>
    /\ UNCHANGED FOther

SpecFusion == FInit /\ [][Fuse]_vars

(***************************************************************************)
(* Claims about the fusion kernel.                                         *)
(***************************************************************************)
Occurs(list, p) == \E i \in DOMAIN list : list[i].path = p

\* the 1-based rank of the first occurrence of p in list
FirstRank(list, p) ==
    CHOOSE i \in DOMAIN list :
        /\ list[i].path = p
        /\ \A j \in DOMAIN list : list[j].path = p => i <= j

FusedPaths == {fused.items[i].path : i \in DOMAIN fused.items}

\* C5: the paths of the fused list are exactly the paths of the sources of
\* non-zero normalized weight, each once, also when a source repeats a
\* path; an empty results map and all-zero weights give the empty list.
C5_FusedPathSet ==
    fpc = "fused" =>
        /\ FusedPaths =
             {p \in Paths : \E s \in DOMAIN rmap :
                 nweights[s].n # 0 /\ Occurs(rmap[s], p)}
        /\ \A i, j \in DOMAIN fused.items :
             i # j => fused.items[i].path # fused.items[j].path
        /\ DOMAIN rmap = {} => fused.items = <<>>
        /\ (\A s \in DOMAIN weights : weights[s].n = 0) => fused.items = <<>>

\* a zero-weight source holds a path of its own, the other source repeats
\* a path, and the fused list holds the other source's path once
C5_Witness ==
    /\ fpc = "fused"
    /\ weights = [exact |-> Num(0), vector |-> Num(2)]
    /\ rmap = [exact |-> <<Item("a.py", "")>>,
               vector |-> <<Item("d.md", ""), Item("d.md", "")>>]
    /\ Len(fused.items) = 1
    /\ fused.items[1].path = "d.md"

RECURSIVE RankSum(_, _)
\* the sum over the sources S that hold p of w_s * Pk(k) / (k + r_s(p))
RankSum(S, p) ==
    IF S = {} THEN 0
    ELSE LET s == CHOOSE x \in S : TRUE IN
         (IF Occurs(rmap[s], p)
          THEN nweights[s].n * (Pk(rrf_k) \div (rrf_k + FirstRank(rmap[s], p)))
          ELSE 0)
         + RankSum(S \ {s}, p)

\* C6: the fused score of a path is the sum over the sources that hold it
\* of w_s / (k + r_s(p)), w_s the normalized weight and r_s(p) the rank of
\* its first occurrence; one source of positive weight holding one result
\* gives 1 / (k + 1).
C6_FusedScore ==
    fpc = "fused" =>
        /\ fused.den = WeightDen(nweights) * Pk(rrf_k)
        /\ \A i \in DOMAIN fused.items :
             fused.items[i].score = RankSum(DOMAIN rmap, fused.items[i].path)
        /\ \A s \in DOMAIN rmap :
             (DOMAIN rmap = {s} /\ Len(rmap[s]) = 1 /\ weights[s].n > 0) =>
                 /\ Len(fused.items) = 1
                 /\ fused.items[1].score * (rrf_k + 1) = fused.den

\* a path held by both sources at different ranks, and repeated in one
C6_Witness ==
    /\ fpc = "fused"
    /\ rrf_k = 60
    /\ weights = [exact |-> Num(2), vector |-> Num(1)]
    /\ rmap = [exact |-> <<Item("a.py", ""), Item("a.py", "")>>,
               vector |-> <<Item("d.md", ""), Item("a.py", "")>>]
    /\ fused.den = 3 * 61 * 62
    /\ \E i \in DOMAIN fused.items :
         /\ fused.items[i].path = "a.py"
         /\ fused.items[i].score = 2 * 62 + 1 * 61

\* where p is first met: the position of its source in the map's order,
\* then its rank there, over the sources of non-zero weight
MetAt(p) ==
    LET S == {i \in DOMAIN order :
                 nweights[order[i]].n # 0 /\ Occurs(rmap[order[i]], p)}
        i == CHOOSE x \in S : \A y \in S : x <= y
    IN  i * (MaxLen + 1) + FirstRank(rmap[order[i]], p)

\* C7: the fused list is ordered by non-increasing score, results of equal
\* score in the order their paths were first met; one source of positive
\* weight without repeated paths comes back in its own order with strictly
\* decreasing scores.
C7_FusedOrder ==
    fpc = "fused" =>
        /\ \A i, j \in DOMAIN fused.items :
             i < j =>
                \/ fused.items[i].score > fused.items[j].score
                \/ /\ fused.items[i].score = fused.items[j].score
                   /\ MetAt(fused.items[i].path) < MetAt(fused.items[j].path)
        /\ \A s \in DOMAIN rmap :
             (/\ DOMAIN rmap = {s}
              /\ weights[s].n > 0
              /\ \A i, j \in DOMAIN rmap[s] :
                    i # j => rmap[s][i].path # rmap[s][j].path) =>
                 /\ Len(fused.items) = Len(rmap[s])
                 /\ \A i \in DOMAIN rmap[s] :
                       fused.items[i].path = rmap[s][i].path
                 /\ \A i, j \in DOMAIN fused.items :
                       i < j => fused.items[i].score > fused.items[j].score

\* two sources of equal weight that rank two paths in opposite order: the
\* two tie, and the one met first stays first
C7_Witness ==
    /\ fpc = "fused"
    /\ order = <<"vector", "exact">>
    /\ weights = [exact |-> Num(1), vector |-> Num(1)]
    /\ rmap = [exact |-> <<Item("a.py", ""), Item("d.md", "")>>,
               vector |-> <<Item("d.md", ""), Item("a.py", "")>>]
    /\ Len(fused.items) = 2
    /\ fused.items[1].score = fused.items[2].score
    /\ fused.items[1].path = "d.md"

\* the sum of the numerators of the numeric entries of a mapping
RECURSIVE NumeratorSum(_, _)
NumeratorSum(w, S) ==
    IF S = {} THEN 0
    ELSE LET s == CHOOSE x \in S : TRUE IN
         (IF w[s].kind = "num" THEN w[s].n ELSE 0) + NumeratorSum(w, S \ {s})

NumericKeys(w) == {s \in DOMAIN w : w[s].kind = "num"}

\* the total of the caller's weights is finite and strictly positive
C8_Divides ==
    /\ \A s \in DOMAIN weights : weights[s].kind \in {"num", "none"}
    /\ NumeratorSum(weights, DOMAIN weights) > 0

\* C8: normalize_weights returns a mapping with the keys of its input;
\* when the total is finite and strictly positive every weight is divided
\* by the total and the values sum to 1; when the total is zero, negative,
\* NaN or infinite every value is the input value.
C8_NormalizeWeights ==
    fpc = "normalized" =>
        /\ DOMAIN nweights = DOMAIN weights
        /\ C8_Divides =>
             /\ \A s \in NumericKeys(weights) :
                  /\ nweights[s].kind = "num"
                  /\ nweights[s].d > 0
                  /\ nweights[s].n * NumeratorSum(weights, DOMAIN weights)
                       = weights[s].n * nweights[s].d
             /\ \A s \in NumericKeys(weights) :
                  NumeratorSum(nweights, DOMAIN nweights) = nweights[s].d
        /\ ~C8_Divides => \A s \in DOMAIN weights : nweights[s] = weights[s]

\* weights 2, -1 and None: total 1, so the weights are divided
C8_Witness ==
    /\ fpc = "normalized"
    /\ weights = [exact |-> Num(2), fuzzy |-> Num(-1), vector |-> None]
    /\ nweights["exact"].n = 2 /\ nweights["exact"].d = 1
    /\ nweights["vector"] = None

(***************************************************************************)
(* apply_symbol_boost.                                                     *)
(***************************************************************************)
BoostOne(r, f) ==
    IF r.symbol_name # ""
    THEN [r EXCEPT !.score = r.score * f.n,
                   !.boosted = TRUE,
                   !.original_fusion_score = r.score * f.d]
    ELSE [r EXCEPT !.score = r.score * f.d]

\* the boost followed by a sort by score
ApplySymbolBoostSorted(list, f) ==
    [den |-> list.den * f.d,
     items |-> SortDesc([i \in DOMAIN list.items |-> BoostOne(list.items[i], f)])]

\* every result with a symbol name has its score multiplied by the factor
\* and records the score it had; the list is not sorted again
apply_symbol_boost(list, f) ==
    [den |-> list.den * f.d,
     items |-> [i \in DOMAIN list.items |-> BoostOne(list.items[i], f)]]

(***************************************************************************)
(* filter_results_by_category.                                             *)
(***************************************************************************)
QueryIntents == {"KEYWORD", "SEMANTIC", "MIXED"}

\* the category a path maps to
Category(p) ==
    IF p = "a.py" THEN "code" ELSE IF p = "d.md" THEN "doc" ELSE "none"

RECURSIVE KeepCode(_)
KeepCode(items) ==
    IF items = <<>> THEN <<>>
    ELSE IF Category(Head(items).path) = "code"
    THEN <<Head(items)>> \o KeepCode(Tail(items))
    ELSE KeepCode(Tail(items))

RECURSIVE TrailingTies(_, _)
\* how many results at the end of out have the score of x and are no doc
TrailingTies(out, x) ==
    IF out = <<>> THEN 0
    ELSE IF /\ out[Len(out)].score = x.score
            /\ Category(out[Len(out)].path) # "doc"
    THEN 1 + TrailingTies(SubSeq(out, 1, Len(out) - 1), x)
    ELSE 0

RECURSIVE PreferDocOnTies(_, _, _)
\* all results kept; a doc moves ahead of the results of equal score that
\* stand directly before it
PreferDocOnTies(items, i, out) ==
    IF i > Len(items) THEN out
    ELSE LET x == items[i]
             t == IF Category(x.path) = "doc" THEN TrailingTies(out, x) ELSE 0
             cut == Len(out) - t
         IN  PreferDocOnTies(items, i + 1,
                 SubSeq(out, 1, cut) \o <<x>> \o SubSeq(out, cut + 1, Len(out)))

\* the filter without the allow_mixed fallback
FilterNoFallback(list, intent, allow_mixed) ==
    IF intent = "KEYWORD"
    THEN [list EXCEPT !.items = KeepCode(list.items)]
    ELSE IF intent = "SEMANTIC"
    THEN [list EXCEPT !.items = PreferDocOnTies(list.items, 1, <<>>)]
    ELSE list

\* KEYWORD keeps the code results (all results when none is code and
\* allow_mixed is set), SEMANTIC keeps all and prefers docs on ties, MIXED
\* keeps all
filter_results_by_category(list, intent, allow_mixed) ==
    IF intent = "KEYWORD"
    THEN (IF KeepCode(list.items) = <<>> /\ allow_mixed
          THEN list
          ELSE [list EXCEPT !.items = KeepCode(list.items)])
    ELSE IF intent = "SEMANTIC"
    THEN [list EXCEPT !.items = PreferDocOnTies(list.items, 1, <<>>)]
    ELSE list

(***************************************************************************)
(* SpecKernel: apply_symbol_boost and filter_results_by_category applied   *)
(* to any result list.                                                     *)
(***************************************************************************)
BoostFactors == {Factor(3, 2), Factor(2, 1), Factor(1, 1)}

KernelItems ==
    {Scored(p, sym, n) : p \in Paths, sym \in {"", "foo"}, n \in 0..MaxScore}

KInit ==
    /\ HIdle
    /\ XIdle
    /\ FIdle
    /\ RIdle
    /\ kin \in [den : {3}, items : SeqsUpTo(KernelItems, MaxLen)]
    /\ kout = EmptyList
    /\ kparam = NoParam

\* kout = apply_symbol_boost(kin, boost_factor=f)
ApplyBoost(f) ==
    /\ kparam.op = "none"
    /\ kout' = apply_symbol_boost(kin, f)
    /\ kparam' = [NoParam EXCEPT !.op = "boost", !.factor = f]
    /\ UNCHANGED kin
    /\ UNCHANGED KOther

\* kout = filter_results_by_category(kin, intent, allow_mixed)
ApplyFilter(intent, allow_mixed) ==
    /\ kparam.op = "none"
    /\ kout' = filter_results_by_category(kin, intent, allow_mixed)
    /\ kparam' = [NoParam EXCEPT !.op = "filter", !.intent = intent,
                                 !.allow_mixed = allow_mixed]
    /\ UNCHANGED kin
    /\ UNCHANGED KOther

KNext ==
    \/ \E f \in BoostFactors : ApplyBoost(f)
    \/ \E intent \in QueryIntents, allow_mixed \in BOOLEAN :
          ApplyFilter(intent, allow_mixed)

SpecKernel == KInit /\ [][KNext]_vars

(***************************************************************************)
(* Claims about the boost and the filter.                                  *)
(***************************************************************************)
\* C9: apply_symbol_boost returns the paths of its input in the same order;
\* a result with a symbol name has its score multiplied by the factor, with
\* boosted = true and original_fusion_score = its input score; every other
\* result keeps its score and gets no boosted key.
C9_SymbolBoost ==
    kparam.op = "boost" =>
        /\ Len(kout.items) = Len(kin.items)
        /\ \A i \in DOMAIN kin.items :
             LET a == kin.items[i]
                 b == kout.items[i]
             IN  /\ b.path = a.path
                 /\ b.symbol_name = a.symbol_name
                 /\ a.symbol_name # "" =>
                      /\ b.score * kin.den * kparam.factor.d
                           = a.score * kparam.factor.n * kout.den
                      /\ b.boosted
                      /\ b.original_fusion_score * kin.den = a.score * kout.den
                 /\ a.symbol_name = "" =>
                      /\ b.score * kin.den = a.score * kout.den
                      /\ ~b.boosted

\* the boost lifts the second result over the first, and both stay in place
C9_Witness ==
    /\ kparam.op = "boost"
    /\ kparam.factor = Factor(2, 1)
    /\ Len(kin.items) = 2
    /\ kin.items[1].symbol_name = "" /\ kin.items[2].symbol_name # ""
    /\ kin.items[1].score > kin.items[2].score
    /\ kout.items[2].score > kout.items[1].score
    /\ kout.items[2].path = kin.items[2].path

HasCategory(items, c) == \E i \in DOMAIN items : Category(items[i].path) = c

\* C10: with intent KEYWORD the filter returns no doc result whenever its
\* input holds a code result; with intent MIXED it returns its input; with
\* allow_mixed it never turns a non-empty input into an empty output.
C10_CategoryFilter ==
    kparam.op = "filter" =>
        /\ (kparam.intent = "KEYWORD" /\ HasCategory(kin.items, "code")) =>
              ~HasCategory(kout.items, "doc")
        /\ kparam.intent = "MIXED" => kout = kin
        /\ (kparam.allow_mixed /\ kin.items # <<>>) => kout.items # <<>>

\* a KEYWORD filter over a doc and a code result keeps the code result
C10_Witness ==
    /\ kparam.op = "filter"
    /\ kparam.intent = "KEYWORD"
    /\ Len(kin.items) = 2
    /\ Category(kin.items[1].path) = "doc"
    /\ Category(kin.items[2].path) = "code"
    /\ kout.items = <<kin.items[2]>>

(***************************************************************************)
(* The rerankers.                                                          *)
(***************************************************************************)
Take(items, n) == SubSeq(items, 1, IF Len(items) < n THEN Len(items) ELSE n)

\* rerank_results: the score of each of the first top_k results becomes
\* 0.5 * rrf_score + 0.5 * cosine, the cosine of a result being cos[path]
\* (0 or 1); the others keep theirs; the list is not sorted
rerank_results(list, cos, top_k) ==
    [den |-> 2 * list.den,
     items |-> [i \in DOMAIN list.items |->
                  [list.items[i] EXCEPT
                      !.score = IF i <= top_k
                                THEN @ + cos[list.items[i].path] * list.den
                                ELSE 2 * @]]]

\* cross_encoder_rerank: the score becomes the cross-encoder's score of the
\* result, ce[path] (0 or 1), and the top_k best are kept
cross_encoder_rerank(list, ce, top_k) ==
    [den |-> list.den,
     items |-> Take(SortDesc([i \in DOMAIN list.items |->
                  [list.items[i] EXCEPT
                      !.score = ce[list.items[i].path] * list.den]]), top_k)]

(***************************************************************************)
(* SpecRank: search() from the results map of _search_parallel to the      *)
(* returned list, lines 244-327, with fusion_method = "rrf".               *)
(***************************************************************************)
\* Config.rrf_k, and the k of an engine without config
DefaultRrfK == 60
\* fused_results[:100] handed to rerank_results
RerankWindow == 100
\* Config.reranking_top_k
RerankingTopK == 50
\* Config.reranker_top_k
RerankerTopK == 50

\* Config.symbol_boost_factor, and the factor of an engine without config
DefaultBoost == Factor(3, 2)

RankConfigs ==
    {NoRankConfig}
    \cup [present : {TRUE}, enable_reranking : {FALSE},
          enable_cross_encoder_rerank : {FALSE},
          enable_category_filter : BOOLEAN]
    \cup [present : {TRUE}, enable_reranking : {TRUE},
          enable_cross_encoder_rerank : BOOLEAN,
          enable_category_filter : {TRUE}]

RankCalls ==
    [config : RankConfigs, pure_vector : BOOLEAN, limit : {1, 20},
     intent : QueryIntents]

\* the symbol names the results of a call carry, by path
SymbolMaps ==
    {[p \in Paths |-> IF p \in S THEN "foo" ELSE ""] :
        S \in {{}, {"a.py"}, {"x.dat"}}}

RankOrders == {<<"exact">>, <<"exact", "vector">>}

RInit ==
    /\ HIdle
    /\ XIdle
    /\ KIdle
    /\ order \in RankOrders
    /\ \E sym \in SymbolMaps :
         rmap \in [{order[i] : i \in DOMAIN order} ->
                     SeqsUpTo({Item(p, sym[p]) : p \in Paths}, MaxLen)]
    /\ weights = [s \in {order[i] : i \in DOMAIN order} |-> Num(1)]
    /\ rrf_k = DefaultRrfK
    /\ fpc = "dispatched"
    /\ nweights = EmptyMap
    /\ fused = EmptyList
    /\ call \in RankCalls
    /\ result = EmptyList

\* lines 281-294: the embedding reranker, when the config enables it
RerankStage(list, c, cos) ==
    IF c.config.present /\ c.config.enable_reranking
    THEN rerank_results([list EXCEPT !.items = Take(@, RerankWindow)], cos,
                        IF c.config.enable_cross_encoder_rerank
                        THEN RerankWindow ELSE RerankingTopK)
    ELSE list

\* lines 297-311: the cross-encoder, when the config enables both rerankers
\* and a reranker could be created
CrossEncoderStage(list, c, have_reranker, ce) ==
    IF /\ c.config.present
       /\ c.config.enable_reranking
       /\ c.config.enable_cross_encoder_rerank
       /\ have_reranker
    THEN cross_encoder_rerank(list, ce, RerankerTopK)
    ELSE list

\* lines 315-324: the category filter, unless disabled or pure_vector
FilterStage(list, c) ==
    IF (~c.config.present \/ c.config.enable_category_filter) /\ ~c.pure_vector
    THEN filter_results_by_category(list, c.intent, TRUE)
    ELSE list

\* search() after the dispatch: fusion, symbol boost, the rerankers, the
\* category filter and the limit, in the order of lines 244-327
SearchRank(cos, have_reranker, ce) ==
    /\ fpc = "dispatched"
    /\ nweights' = normalize_weights(weights)
    /\ fused' = reciprocal_rank_fusion(order, rmap, weights, rrf_k)
    /\ LET boosted == apply_symbol_boost(fused', DefaultBoost)
           reranked == RerankStage(boosted, call, cos)
           crossed == CrossEncoderStage(reranked, call, have_reranker, ce)
           filtered == FilterStage(crossed, call)
       IN  result' = [filtered EXCEPT !.items = Take(@, call.limit)]
    /\ fpc' = "returned"
    /\ UNCHANGED <<order, rmap, weights, rrf_k, call>>
    /\ UNCHANGED ROther

\* the scores a reranker gives, by path: at most one path scores 1
ScoreMaps ==
    {[p \in Paths |-> IF p = q THEN 1 ELSE 0] : q \in Paths \cup {"none"}}

\* a disabled stage draws no scores
StageScores(enabled) == IF enabled THEN ScoreMaps ELSE {[p \in Paths |-> 0]}

RNext ==
    LET rr == call.config.present /\ call.config.enable_reranking
        xe == rr /\ call.config.enable_cross_encoder_rerank
    IN  \E cos \in StageScores(rr),
           have_reranker \in (IF xe THEN BOOLEAN ELSE {FALSE}) :
            \E ce \in StageScores(xe /\ have_reranker) :
                SearchRank(cos, have_reranker, ce)

SpecRank == RInit /\ [][RNext]_vars

\* C4: the list search() returns is ordered by non-increasing score, for
\* every configuration of the post-fusion chain and every limit.
C4_ReturnedSorted ==
    fpc = "returned" =>
        \A i, j \in DOMAIN result.items :
            i < j => result.items[i].score >= result.items[j].score


(***************************************************************************)
(* SpecTag: tag_search_source applied to a list, and once more to what it  *)
(* returned.                                                               *)
(***************************************************************************)
\* the idle state of the hybrid engine's models
EngineIdle == HIdle /\ FIdle /\ KIdle /\ RIdle

TagSources == {"exact", "fuzzy"}

\* results as the caller builds them: with or without a search_source and a
\* metadata key of the caller's own
TagItems ==
    [path : {"a.py", "b.py"}, search_source : TagSources \cup {""},
     custom_field : {"", "value"}]

TInit ==
    /\ EngineIdle
    /\ TRest
    /\ tin \in SeqsUpTo(TagItems, MaxLen)
    /\ torig = tin
    /\ tout = <<>>
    /\ tagain = <<>>
    /\ tsrc = <<>>
    /\ tpc = "input"

\* tout = tag_search_source(tin, s); the results of tin are copied
Tag(s) ==
    /\ tpc = "input"
    /\ tout' = tag_search_source(tin, s)
    /\ tsrc' = <<s>>
    /\ tpc' = "tagged"
    /\ UNCHANGED <<tin, torig, tagain>>
    /\ UNCHANGED TOther

\* tagain = tag_search_source(tout, s)
TagAgain(s) ==
    /\ tpc = "tagged"
    /\ tagain' = tag_search_source(tout, s)
    /\ tsrc' = Append(tsrc, s)
    /\ tpc' = "retagged"
    /\ UNCHANGED <<tin, torig, tout>>
    /\ UNCHANGED TOther

TNext ==
    \/ \E s \in TagSources : Tag(s)
    \/ \E s \in TagSources : TagAgain(s)

SpecTag == TInit /\ [][TNext]_vars

\* b is a with search_source = s and every other field as in a
TaggedFrom(a, b, s) ==
    /\ b.path = a.path
    /\ b.custom_field = a.custom_field
    /\ b.search_source = s

\* C11: tag_search_source(results, s) returns the results with every field
\* as in the input except search_source = s, leaves the caller's list as it
\* was, gives an equal list when its output is tagged with s again, and
\* leaves search_source = s when the input already carried another source.
C11_TagSearchSource ==
    /\ tpc \in {"tagged", "retagged"} =>
         /\ Len(tout) = Len(tin)
         /\ \A i \in DOMAIN tin : TaggedFrom(tin[i], tout[i], tsrc[1])
         /\ tin = torig
    /\ tpc = "retagged" =>
         /\ Len(tagain) = Len(tin)
         /\ \A i \in DOMAIN tin : TaggedFrom(tin[i], tagain[i], tsrc[2])
         /\ tsrc[2] = tsrc[1] => tagain = tout

\* a list holding a result tagged "fuzzy" was tagged "exact" and again
C11_Witness ==
    /\ tpc = "retagged"
    /\ tsrc = <<"exact", "exact">>
    /\ \E i \in DOMAIN tin : tin[i].search_source = "fuzzy"
    /\ \E i \in DOMAIN tin : tin[i].custom_field = "value"


(***************************************************************************)
(* SpecScore: the scores the engines hand to SearchResult for candidates   *)
(* that come with a cosine distance or similarity.  A distance d is the    *)
(* integer vdists[i] over DistDen, between 0 and 2; the similarity of the  *)
(* same candidate is 1 - d.                                                *)
(***************************************************************************)
\* granularity of the distances: d ranges over 0, 1/DistDen, ..., 2
DistDen == 2

Distances == 0..(2 * DistDen)

VectorPaths == {"centralized", "dense_rerank", "binary_dense"}

Max0(n) == IF n < 0 THEN 0 ELSE n

\* max(0.0, 1.0 - distance), chain_search.py line 1453
ClampedScores(dists) == [i \in DOMAIN dists |-> Max0(DistDen - dists[i])]

\* scores = [1.0 - d for d in distances], hybrid_search.py line 688
CentralizedScores(dists) == [i \in DOMAIN dists |-> DistDen - dists[i]]

\* score = float(scores[i]) with scores the cosine similarities,
\* chain_search.py lines 754-758
SimilarityScores(dists) == [i \in DOMAIN dists |-> DistDen - dists[i]]

VInit ==
    /\ EngineIdle
    /\ VRest
    /\ vkind \in VectorPaths
    /\ vdists \in SeqsUpTo(Distances, MaxLen)
    /\ vscores = <<>>
    /\ vbuilt = FALSE
    /\ vpc = "candidates"

\* SearchResult(score=...) over the scores: codexlens.entities is not part
\* of the sources, so a negative score is either accepted or rejected with
\* an exception that the caller's except clause absorbs
BuildResults(scores, accepts_negative) ==
    accepts_negative \/ \A i \in DOMAIN scores : scores[i] >= 0

\* _search_vector_centralized, lines 677-696
ScoreCentralized(accepts_negative) ==
    /\ vpc = "candidates"
    /\ vkind = "centralized"
    /\ vscores' = CentralizedScores(vdists)
    /\ vbuilt' = BuildResults(vscores', accepts_negative)
    /\ vpc' = "done"
    /\ UNCHANGED <<vkind, vdists>>
    /\ UNCHANGED VOther

\* dense_rerank_cascade_search, lines 1445-1462
ScoreDenseRerank(accepts_negative) ==
    /\ vpc = "candidates"
    /\ vkind = "dense_rerank"
    /\ vscores' = ClampedScores(vdists)
    /\ vbuilt' = BuildResults(vscores', accepts_negative)
    /\ vpc' = "done"
    /\ UNCHANGED <<vkind, vdists>>
    /\ UNCHANGED VOther

\* binary_cascade_search, dense stage, lines 753-769
ScoreBinaryDense(accepts_negative) ==
    /\ vpc = "candidates"
    /\ vkind = "binary_dense"
    /\ vscores' = SimilarityScores(vdists)
    /\ vbuilt' = BuildResults(vscores', accepts_negative)
    /\ vpc' = "done"
    /\ UNCHANGED <<vkind, vdists>>
    /\ UNCHANGED VOther

VNext ==
    \/ \E acc \in BOOLEAN : ScoreCentralized(acc)
    \/ \E acc \in BOOLEAN : ScoreDenseRerank(acc)
    \/ \E acc \in BOOLEAN : ScoreBinaryDense(acc)

SpecScore == VInit /\ [][VNext]_vars

\* C12: on the centralized vector path, in the dense-rerank cascade and in
\* the dense stage of the binary cascade every candidate becomes a
\* SearchResult whose score is max(0, 1 - d), so it is never negative.
C12_ClampedScore ==
    vpc = "done" =>
        /\ vbuilt
        /\ vscores = ClampedScores(vdists)
        /\ \A i \in DOMAIN vscores : vscores[i] >= 0


(***************************************************************************)
(* _collect_index_paths: the walk over the subdirs tables.  An index is    *)
(* named by its resolved path; the start index is "n0".                    *)
(***************************************************************************)
\* largest depth argument
MaxDepth == 2
\* longest subdirs table in the model of graphs over four indexes
MaxKids == 2

StartIndex == "n0"

Nodes3 == {"n0", "n1", "n2"}

Nodes4 == {"n0", "n1", "n2", "n3"}

Depths == -1..MaxDepth

\* the state of the walk: collected, visited and the number of calls
NoWalk == [collected |-> <<>>, visited |-> {}, ncalls |-> 0]

\* a walk that does not look at the visited set
RECURSIVE CollectNoVisited(_, _, _, _, _, _, _)
CollectNoVisited(g, miss, unr, d, node, cur, w) ==
    LET w1 == [w EXCEPT !.visited = @ \cup {node}, !.ncalls = @ + 1]
        w2 == [w1 EXCEPT !.collected = Append(@, node)]
        kids == g[node]
        Fold[i \in 0..Len(kids)] ==
            IF i = 0 THEN w2
            ELSE CollectNoVisited(g, miss, unr, d, kids[i], cur + 1, Fold[i - 1])
    IN  IF w.ncalls > 2 * Cardinality(DOMAIN g) THEN w
        ELSE IF node \in miss THEN w1
        ELSE IF d >= 0 /\ cur >= d THEN w2
        ELSE IF node \in unr THEN w2
        ELSE Fold[Len(kids)]

\* _collect_recursive(index_path, current_depth), lines 2030-2055, from the
\* walk state w to the walk state at its return
RECURSIVE CollectRecursive(_, _, _, _, _, _, _)
CollectRecursive(g, miss, unr, d, node, cur, w) ==
    LET w0 == [w EXCEPT !.ncalls = @ + 1]
        w1 == [w0 EXCEPT !.visited = @ \cup {node}]
        w2 == [w1 EXCEPT !.collected = Append(@, node)]
        kids == g[node]
        Fold[i \in 0..Len(kids)] ==
            IF i = 0 THEN w2
            ELSE CollectRecursive(g, miss, unr, d, kids[i], cur + 1, Fold[i - 1])
    IN  IF node \in w.visited THEN w0
        ELSE IF node \in miss THEN w1
        ELSE IF d >= 0 /\ cur >= d THEN w2
        ELSE IF node \in unr THEN w2
        ELSE Fold[Len(kids)]

\* a walk that never stops at the depth limit
CollectIndexPathsUnlimited(g, miss, unr, d) ==
    CollectRecursive(g, miss, unr, -1, StartIndex, 0, NoWalk)

\* _collect_index_paths(start_index, depth), lines 2027-2059
CollectIndexPaths(g, miss, unr, d) ==
    CollectRecursive(g, miss, unr, d, StartIndex, 0, NoWalk)

(***************************************************************************)
(* SpecCollect: one _collect_index_paths call on any link graph over three *)
(* indexes (links to the index itself and back to the start included).     *)
(* SpecCollectDag: the same call on link graphs over four indexes with     *)
(* tables of at most MaxKids links.                                        *)
(***************************************************************************)
\* the link tables over a set of indexes: no index is listed twice
LinkTables(N, longest) == DistinctSeqs(N, longest)

\* at most one index is missing or has an unreadable subdirs table
Faults3 ==
    {[missing |-> {}, unreadable |-> {}],
     [missing |-> {"n0"}, unreadable |-> {}],
     [missing |-> {"n2"}, unreadable |-> {}],
     [missing |-> {}, unreadable |-> {"n0"}],
     [missing |-> {}, unreadable |-> {"n1"}]}

CInit ==
    /\ EngineIdle
    /\ CRest
    /\ links \in [Nodes3 -> LinkTables(Nodes3, Cardinality(Nodes3))]
    /\ \E f \in Faults3 : missing = f.missing /\ unreadable = f.unreadable
    /\ depth \in Depths
    /\ collected = <<>>
    /\ visited = {}
    /\ ncalls = 0
    /\ cpc = "call"

CDagInit ==
    /\ EngineIdle
    /\ CRest
    /\ links \in [Nodes4 -> LinkTables(Nodes4, MaxKids)]
    /\ \A n \in Nodes4 : \A i \in DOMAIN links[n] : links[n][i] # n
    /\ missing = {}
    /\ unreadable = {}
    /\ depth \in Depths
    /\ collected = <<>>
    /\ visited = {}
    /\ ncalls = 0
    /\ cpc = "call"

\* index_paths = self._collect_index_paths(start_index, options.depth)
CollectPaths ==
    /\ cpc = "call"
    /\ LET w == CollectIndexPaths(links, missing, unreadable, depth)
       IN  /\ collected' = w.collected
           /\ visited' = w.visited
           /\ ncalls' = w.ncalls
    /\ cpc' = "done"
    /\ UNCHANGED <<links, missing, unreadable, depth>>
    /\ UNCHANGED COther

SpecCollect == CInit /\ [][CollectPaths]_vars

SpecCollectDag == CDagInit /\ [][CollectPaths]_vars


(***************************************************************************)
(* Claims about _collect_index_paths.                                      *)
(***************************************************************************)
CollectedSet == {collected[i] : i \in DOMAIN collected}

\* the indexes linked from an index of S that is not in blocked
Linked(S, blocked) ==
    UNION {{links[n][i] : i \in DOMAIN links[n]} : n \in S \ blocked}

\* the indexes at most k links from the start, following no link out of an
\* index in blocked
RECURSIVE Within(_, _)
Within(k, blocked) ==
    IF k = 0 THEN {StartIndex}
    ELSE Within(k - 1, blocked) \cup Linked(Within(k - 1, blocked), blocked)

\* the indexes whose links cannot be followed
Closed == missing \cup unreadable

\* the number of links that bounds every simple chain
Far == Cardinality(DOMAIN links)

\* C13: for depth d >= 0 every returned index is at most d links from the
\* start index; with d = 0 the result is the start index alone, when it
\* exists.
C13_DepthBound ==
    (cpc = "done" /\ depth >= 0) =>
        /\ CollectedSet \subseteq Within(depth, {})
        /\ depth = 0 =>
             collected = IF StartIndex \in missing THEN <<>> ELSE <<StartIndex>>

\* depth 1 on a graph with an index two links away: the linked index is
\* returned and the far one is not
C13_Witness ==
    /\ cpc = "done"
    /\ depth = 1
    /\ Len(collected) = 2
    /\ Within(2, {}) # Within(1, {})
    /\ links[StartIndex] # <<>>

\* C14: for depth d >= 0 every existing index that a chain of at most d
\* links through existing indexes reaches is returned, also when an index
\* is linked from several parents or the links form a cycle; for d = -1
\* every existing index reachable from the start is returned.
C14_AllWithinDepth ==
    cpc = "done" =>
        (Within(IF depth >= 0 THEN depth ELSE Far, Closed) \ missing)
            \subseteq CollectedSet

\* the walk with an explicit stack of <<index, depth>> pairs, the top first
RECURSIVE StackWalk(_, _, _)
StackWalk(stack, coll, seen) ==
    IF stack = <<>> THEN coll
    ELSE LET node == stack[1][1]
             cur == stack[1][2]
             rest == Tail(stack)
             kids == [i \in DOMAIN links[node] |-> <<links[node][i], cur + 1>>]
         IN  IF node \in seen THEN StackWalk(rest, coll, seen)
             ELSE IF node \in missing
             THEN StackWalk(rest, coll, seen \cup {node})
             ELSE IF (depth >= 0 /\ cur >= depth) \/ node \in unreadable
             THEN StackWalk(rest, Append(coll, node), seen \cup {node})
             ELSE StackWalk(kids \o rest, Append(coll, node), seen \cup {node})

\* the depth-first pre-order of the link tables from the start index
PreOrder == StackWalk(<<<<StartIndex, 0>>>>, <<>>, {})

\* the number of entries of all subdirs tables
RECURSIVE LinkCount(_)
LinkCount(S) ==
    IF S = {} THEN 0
    ELSE LET n == CHOOSE m \in S : TRUE
         IN  Len(links[n]) + LinkCount(S \ {n})

\* C15: the call returns after at most one visit per link entry and one of
\* the start, also on graphs with cycles; no index is returned twice, the
\* start index is first and the others follow in depth-first pre-order of
\* the link tables.
C15_TerminatesInPreOrder ==
    cpc = "done" =>
        /\ ncalls <= 1 + LinkCount(DOMAIN links)
        /\ \A i, j \in DOMAIN collected : i # j => collected[i] # collected[j]
        /\ collected # <<>> => collected[1] = StartIndex
        /\ collected = PreOrder

\* unlimited depth on a graph whose links form a cycle through all three
\* indexes
C15_Witness ==
    /\ cpc = "done"
    /\ depth = -1
    /\ links["n0"] = <<"n2">>
    /\ links["n2"] = <<"n1", "n0">>
    /\ links["n1"] = <<"n1", "n0", "n2">>
    /\ collected = <<"n0", "n2", "n1">>


(***************************************************************************)
(* _merge_and_rank: deduplication by path, ranking and pagination.         *)
(***************************************************************************)
\* a result of one directory index: its path and its score
Ranked(p, n) == [path |-> p, score |-> n]

\* position of the entry for path p in the list uniq, 0 when there is none
IndexOfPath(uniq, p) ==
    IF \E i \in DOMAIN uniq : uniq[i].path = p
    THEN CHOOSE i \in DOMAIN uniq : uniq[i].path = p
    ELSE 0

\* a deduplication that keeps the first result of each path
RECURSIVE DedupFirst(_, _, _)
DedupFirst(results, i, uniq) ==
    IF i > Len(results) THEN uniq
    ELSE IF IndexOfPath(uniq, results[i].path) = 0
    THEN DedupFirst(results, i + 1, Append(uniq, results[i]))
    ELSE DedupFirst(results, i + 1, uniq)

\* lines 2278-2282: path_to_result as the list of its values in insertion
\* order; a better result takes the place of the one stored for its path
RECURSIVE DedupBest(_, _, _)
DedupBest(results, i, uniq) ==
    IF i > Len(results) THEN uniq
    ELSE LET r == results[i]
             at == IndexOfPath(uniq, r.path)
         IN  IF at = 0 THEN DedupBest(results, i + 1, Append(uniq, r))
             ELSE IF r.score > uniq[at].score
             THEN DedupBest(results, i + 1, [uniq EXCEPT ![at] = r])
             ELSE DedupBest(results, i + 1, uniq)

\* lines 2285-2286: the deduplicated results, best score first
FullRanking(results) == SortDesc(DedupBest(results, 1, <<>>))

\* list[offset:offset + limit]
Slice(list, offset, limit) ==
    SubSeq(list, offset + 1,
           IF offset + limit < Len(list) THEN offset + limit ELSE Len(list))

\* _merge_and_rank(results, limit, offset), lines 2277-2289
merge_and_rank(results, limit, offset) ==
    Slice(FullRanking(results), offset, limit)

(***************************************************************************)
(* SpecMerge: a page and the page after it of the same results.            *)
(***************************************************************************)
\* longest list of results handed to _merge_and_rank
MaxMerge == 3

MergePaths == {"a.py", "d.md"}

MInit ==
    /\ EngineIdle
    /\ MRest
    /\ mresults \in SeqsUpTo({Ranked(p, n) : p \in MergePaths, n \in 0..MaxScore},
                             MaxMerge)
    /\ mlimit \in 0..MaxLen
    /\ moffset \in 0..MaxLen
    /\ mpage = <<>>
    /\ mnext = <<>>
    /\ mpc = "call"

\* mpage = self._merge_and_rank(results, limit, offset)
MergePage ==
    /\ mpc = "call"
    /\ mpage' = merge_and_rank(mresults, mlimit, moffset)
    /\ mpc' = "page"
    /\ UNCHANGED <<mresults, mlimit, moffset, mnext>>
    /\ UNCHANGED MOther

\* mnext = self._merge_and_rank(results, limit, offset + limit)
MergeNextPage ==
    /\ mpc = "page"
    /\ mnext' = merge_and_rank(mresults, mlimit, moffset + mlimit)
    /\ mpc' = "next"
    /\ UNCHANGED <<mresults, mlimit, moffset, mpage>>
    /\ UNCHANGED MOther

MNext == MergePage \/ MergeNextPage

SpecMerge == MInit /\ [][MNext]_vars

(***************************************************************************)
(* Claims about _merge_and_rank.                                           *)
(***************************************************************************)
\* the best score the input holds for path p
BestScore(p) ==
    CHOOSE n \in {mresults[i].score : i \in {j \in DOMAIN mresults : mresults[j].path = p}} :
        \A i \in DOMAIN mresults : mresults[i].path = p => mresults[i].score <= n

InputPaths == {mresults[i].path : i \in DOMAIN mresults}

\* list holds each path at most once, each with the best score of the
\* input, and scores do not increase
RankedList(list) ==
    /\ \A i, j \in DOMAIN list : i # j => list[i].path # list[j].path
    /\ \A i \in DOMAIN list :
         /\ list[i].path \in InputPaths
         /\ list[i].score = BestScore(list[i].path)
    /\ \A i, j \in DOMAIN list : i < j => list[i].score >= list[j].score

\* C16: the page holds no path twice, every result has the best score of
\* its path, scores do not increase, the page is at most limit long and is
\* positions offset .. offset+limit-1 of the ranking of all paths; the
\* next page continues it without overlap or gap.
C16_MergeAndRank ==
    LET full == FullRanking(mresults) IN
    /\ mpc \in {"page", "next"} =>
         /\ RankedList(mpage)
         /\ Len(mpage) <= mlimit
         /\ RankedList(full)
         /\ {full[i].path : i \in DOMAIN full} = InputPaths
         /\ Len(mpage) = IF Len(full) - moffset < 0 THEN 0
                         ELSE IF Len(full) - moffset < mlimit
                         THEN Len(full) - moffset ELSE mlimit
         /\ \A i \in DOMAIN mpage : mpage[i] = full[moffset + i]
    /\ mpc = "next" =>
         /\ RankedList(mpage \o mnext)
         /\ \A i \in DOMAIN mnext : mnext[i] = full[moffset + mlimit + i]
         /\ Len(mnext) > 0 => Len(mpage) = mlimit

\* a path met twice, the better score second, and two pages of one result
C16_Witness ==
    /\ mpc = "next"
    /\ mlimit = 1
    /\ moffset = 0
    /\ Len(mpage) = 1
    /\ Len(mnext) = 1
    /\ Len(mresults) > Cardinality(InputPaths)
    /\ \E i, j \in DOMAIN mresults :
         /\ i < j
         /\ mresults[i].path = mresults[j].path
         /\ mresults[i].score < mresults[j].score


(***************************************************************************)
(* ChainSearchEngine: the shared worker pool and the fan-out of a search   *)
(* over the directory indexes.  A pool is named by its position in pools.  *)
(***************************************************************************)
\* calls one thread makes on the engine
MaxCalls == 3

\* SearchOptions.max_workers and the max_workers of the engine
DefaultMaxWorkers == 8

SearchKinds == {"fts", "vector"}

IndexDirs == {"d1", "d2"}

\* effective_workers of _search_parallel, lines 2079-2081
EffectiveWorkers(kind) == IF kind = "vector" THEN 1 ELSE DefaultMaxWorkers

\* a _get_executor that builds a pool on every call
AlwaysNeedsPool(exec) == TRUE

\* line 165: self._executor is None
NeedsPool(exec) == exec = 0

\* the tasks of pool p that are executing
ActiveIn(p) ==
    UNION {{<<t, d>> : d \in th[t].active} : t \in {u \in Threads : th[u].mine = p}}

\* _search_single_index, lines 2155-2208: a failure of the search is caught
\* and an empty list returned; nothing is raised to the future
SearchSingleIndex(fails) ==
    [returned |-> IF fails THEN "empty" ELSE "results", raises |-> FALSE]

EInit ==
    /\ EngineIdle
    /\ ERest
    /\ executor = 0
    /\ pools = <<>>
    /\ callers = {"t1"}
    /\ dirs = IndexDirs
    /\ th = NoThreads

EThreadsInit ==
    /\ EngineIdle
    /\ ERest
    /\ executor = 0
    /\ pools = <<>>
    /\ callers = Threads
    /\ dirs = {"d1"}
    /\ th = NoThreads

\* search() up to the call of _get_executor: lines 208-241 and 2074-2090
BeginSearch(t, kind) ==
    /\ t \in callers
    /\ th[t].pc = "idle"
    /\ th[t].calls < MaxCalls
    /\ th' = [th EXCEPT ![t] = [NoThread EXCEPT
                 !.pc = "get", !.kind = kind,
                 !.workers = EffectiveWorkers(kind), !.calls = th[t].calls]]
    /\ UNCHANGED <<executor, pools, callers, dirs>>
    /\ UNCHANGED EOther

\* _get_executor, lines 164-165: the test of self._executor
GetExecutorCheck(t) ==
    /\ th[t].pc = "get"
    /\ th' = [th EXCEPT ![t].pc = IF NeedsPool(executor) THEN "create" ELSE "return"]
    /\ UNCHANGED <<executor, pools, callers, dirs>>
    /\ UNCHANGED EOther

\* _get_executor, line 166: a new pool is built and stored
GetExecutorCreate(t) ==
    /\ th[t].pc = "create"
    /\ pools' = Append(pools, [workers |-> th[t].workers, live |-> TRUE])
    /\ executor' = Len(pools')
    /\ th' = [th EXCEPT ![t].pc = "return"]
    /\ UNCHANGED <<callers, dirs>>
    /\ UNCHANGED EOther

\* _get_executor, line 167, and the submit loop of lines 2092-2108
SubmitAll(t) ==
    /\ th[t].pc = "return"
    /\ executor # 0
    /\ th' = [th EXCEPT ![t].pc = "collect", ![t].mine = executor,
                        ![t].queued = dirs]
    /\ UNCHANGED <<executor, pools, callers, dirs>>
    /\ UNCHANGED EOther

\* a free worker of the pool takes a queued task
TaskStart(t, d) ==
    /\ th[t].pc = "collect"
    /\ d \in th[t].queued
    /\ pools[th[t].mine].live
    /\ Cardinality(ActiveIn(th[t].mine)) < pools[th[t].mine].workers
    /\ th' = [th EXCEPT ![t].queued = @ \ {d}, ![t].active = @ \cup {d}]
    /\ UNCHANGED <<executor, pools, callers, dirs>>
    /\ UNCHANGED EOther

\* the task _search_single_index(d, ...) ends
TaskFinish(t, d, fails) ==
    /\ d \in th[t].active
    /\ LET r == SearchSingleIndex(fails) IN
       th' = [th EXCEPT ![t].active = @ \ {d},
                        ![t].finished = @ \cup {d},
                        ![t].failed = IF fails THEN @ \cup {d} ELSE @,
                        ![t].raised = IF r.raises THEN @ \cup {d} ELSE @]
    /\ UNCHANGED <<executor, pools, callers, dirs>>
    /\ UNCHANGED EOther

\* the as_completed loop over all futures, lines 2111-2122, and the rest of
\* search(), lines 242-289: a future that raised adds an entry naming its
\* directory to stats.errors, every other one adds what it returned
SearchReturn(t) ==
    /\ th[t].pc = "collect"
    /\ th[t].finished = dirs
    /\ th' = [th EXCEPT ![t].pc = "idle",
                        ![t].got = (dirs \ th[t].raised) \ th[t].failed,
                        ![t].errors = th[t].raised,
                        ![t].calls = @ + 1]
    /\ UNCHANGED <<executor, pools, callers, dirs>>
    /\ UNCHANGED EOther

\* close(), lines 171-173, called while no search is under way
Close(t) ==
    /\ t \in callers
    /\ \A u \in Threads : th[u].pc = "idle"
    /\ th[t].calls < MaxCalls
    /\ IF executor # 0
       THEN /\ pools' = [pools EXCEPT ![executor].live = FALSE]
            /\ executor' = 0
       ELSE UNCHANGED <<executor, pools>>
    /\ th' = [th EXCEPT ![t] = [NoThread EXCEPT !.kind = "close",
                                                !.calls = th[t].calls + 1]]
    /\ UNCHANGED <<callers, dirs>>
    /\ UNCHANGED EOther

ENext ==
    \/ \E t \in Threads, kind \in SearchKinds : BeginSearch(t, kind)
    \/ \E t \in Threads : GetExecutorCheck(t)
    \/ \E t \in Threads : GetExecutorCreate(t)
    \/ \E t \in Threads : SubmitAll(t)
    \/ \E t \in Threads, d \in IndexDirs : TaskStart(t, d)
    \/ \E t \in Threads, d \in IndexDirs, fails \in BOOLEAN : TaskFinish(t, d, fails)
    \/ \E t \in Threads : SearchReturn(t)
    \/ \E t \in Threads : Close(t)

\* one thread calls the engine
SpecChain == EInit /\ [][ENext]_vars

\* two threads call the engine
SpecChainThreads == EThreadsInit /\ [][ENext]_vars


(***************************************************************************)
(* Claims about the chain engine.                                          *)
(***************************************************************************)
\* thread t is back from a search
Returned(t) == th[t].pc = "idle" /\ th[t].kind \in SearchKinds

\* C17: when the search of one directory fails, search() still returns the
\* results of the other directories, and stats.errors holds an entry for
\* the failed directory.
C17_ErrorsRecorded ==
    \A t \in Threads :
        Returned(t) =>
            /\ th[t].got = dirs \ th[t].failed
            /\ th[t].failed \subseteq th[t].errors

\* C18: while a search with enable_vector or hybrid_mode fans out, at most
\* one of its per-directory tasks executes at any time, whatever calls were
\* made on the engine before.
C18_VectorSerialized ==
    \A t \in Threads :
        th[t].kind = "vector" => Cardinality(th[t].active) <= 1

\* no call has been made on the engine
Untouched == \A t \in Threads : th[t].calls = 0 /\ th[t].pc = "idle"

LivePools == {p \in DOMAIN pools : pools[p].live}

\* the step is a close() by thread t
CloseStep(t) ==
    /\ th[t].pc = "idle"
    /\ th'[t].pc = "idle"
    /\ th'[t].calls = th[t].calls + 1

PoolState ==
    /\ Untouched => (executor = 0 /\ pools = <<>>)
    /\ LivePools = IF executor = 0 THEN {} ELSE {executor}
    /\ \A t \in Threads : th[t].pc = "collect" => th[t].mine = executor

PoolSteps ==
    /\ Len(pools') > Len(pools) =>
         /\ executor = 0
         /\ Len(pools') = Len(pools) + 1
         /\ executor' = Len(pools')
    /\ executor' # executor =>
         \/ executor = 0 /\ Len(pools') > Len(pools)
         \/ executor' = 0 /\ \E t \in Threads : CloseStep(t)
    /\ \A t \in Threads :
         CloseStep(t) =>
            /\ executor' = 0
            /\ Len(pools') = Len(pools)
            /\ executor = 0 => pools' = pools
            /\ executor # 0 => ~pools'[executor].live

\* C19: the pool does not exist before the first search, is created by the
\* first call that needs it and reused by later calls, is shut down and
\* dropped by close(), which does nothing when there is no pool, and is
\* built anew by a search after close(); the engine's pool is the only live
\* pool at any time.
C19_PoolLifecycle == []PoolState /\ [][PoolSteps]_vars

\* a search, close() and a search again: the second search runs on a second
\* pool and the first pool is shut down
C19_Witness ==
    /\ Len(pools) = 2
    /\ ~pools[1].live
    /\ executor = 2
    /\ th["t1"].pc = "collect"
    /\ th["t1"].calls = 2

\* C20: when several threads call search on one engine, one pool is
\* created and every call submits to it; no pool is left live that the
\* engine does not hold.
C20_OnePoolForAllThreads ==
    /\ Cardinality(LivePools) <= 1
    /\ LivePools \subseteq {executor}
    /\ \A t \in Threads : th[t].pc = "collect" => th[t].mine = executor

(***************************************************************************)
(* The cascade searches of ChainSearchEngine, chain_search.py 291-1508.   *)
(* The start index exists and two index paths are collected; results are  *)
(* not grouped (options.group_results is False).                          *)
(***************************************************************************)
\* largest k and coarse_k of a call
MaxK == 2

\* Config.cascade_coarse_k and Config.cascade_fine_k
CascadeCoarseK == 100
CascadeFineK == 10

\* width of a binary embedding: Hamming distances are out of 256
HammingBits == 256

\* strategy=None
NoStrategy == "None"

ValidStrategies == {"binary", "hybrid", "binary_rerank", "dense_rerank"}

\* what a caller or a settings file can put where a strategy is expected
StrategyNames == ValidStrategies \cup {"fast"}

\* the chunks of the project: the file and the directory index of each
ChunkIds == {1, 2, 3}
ChunkPath == <<"a.py", "b.py", "a.py">>
ChunkIndex == <<"d1", "d2", "d1">>

\* index_paths, in the order _collect_index_paths returns them
IndexPaths == <<"d1", "d2">>

\* index_root, the index_path of a candidate of the centralized searcher
IndexRoot == "root"

\* distance of each chunk to the query, as stage 1 reports it
DistTables == {<<0, 1, 2>>, <<2, 1, 0>>, <<1, 0, 1>>}

\* scores of the cross-encoder and cosines of the dense stage
CeTables ==
    {[p \in {"a.py", "b.py"} |-> IF p = q THEN 1 ELSE 0] : q \in {"a.py", "b.py"}}
CosTables == {<<1, 0, 0>>, <<0, 1, 1>>}

\* results of _search_parallel in the hybrid cascade
CascadeHits == SeqsUpTo({Ranked("a.py", 1), Ranked("b.py", 2)}, 2)

\* x or y
OrDefault(x, y) == IF x = 0 THEN y ELSE x

\* lines 849-860: the strategy cascade_search dispatches on
EffectiveStrategy(strategy, cfg) ==
    LET effective_strategy ==
            IF /\ strategy = NoStrategy
               /\ cfg.present
               /\ cfg.cascade_strategy \in ValidStrategies
            THEN cfg.cascade_strategy
            ELSE strategy
    IN  IF effective_strategy \in ValidStrategies
        THEN effective_strategy
        ELSE "binary"

\* lines 338-342, 495-499, 930-934, 1214-1218: k and coarse_k after the
\* config defaults are applied
EffectiveK(c) ==
    IF c.config.present THEN OrDefault(c.k, CascadeFineK) ELSE c.k

EffectiveCoarseK(c) ==
    IF c.config.present THEN OrDefault(c.coarse_k, CascadeCoarseK)
    ELSE c.coarse_k

\* a candidate of stage 1: (chunk_id, distance, index_path)
Candidate(c, d, ix) == [chunk_id |-> c, distance |-> d, index_path |-> ix]

\* the elements of seq that satisfy keep, in order
RECURSIVE KeepAt(_, _, _)
KeepAt(seq, keep, i) ==
    IF i > Len(seq) THEN <<>>
    ELSE (IF i \in keep THEN <<seq[i]>> ELSE <<>>) \o KeepAt(seq, keep, i + 1)

\* x put behind every candidate whose distance is not larger
InsertByDistance(sorted, x) ==
    LET pos == Cardinality({i \in DOMAIN sorted :
                               sorted[i].distance <= x.distance})
    IN  SubSeq(sorted, 1, pos) \o <<x>> \o SubSeq(sorted, pos + 1, Len(sorted))

RECURSIVE SortByDistanceFrom(_, _, _)
SortByDistanceFrom(cands, i, sorted) ==
    IF i > Len(cands) THEN sorted
    ELSE SortByDistanceFrom(cands, i + 1, InsertByDistance(sorted, cands[i]))

\* candidates.sort(key=lambda x: x[1]): stable, nearest first
SortByDistance(cands) == SortByDistanceFrom(cands, 1, <<>>)

\* lines 565-611, 978-1029, 1316-1359: the candidates of stage 1 in the
\* order they are appended: those of the centralized searcher, else those
\* of each index path whose search does not raise
Stage1Candidates(env) ==
    LET ids == IF env.centralized THEN <<1, 2, 3>> ELSE <<1, 3, 2>>
        got == KeepAt(ids, {j \in DOMAIN ids :
                               /\ ids[j] \in env.found
                               /\ \/ env.centralized
                                  \/ ChunkIndex[ids[j]] \notin env.failing}, 1)
    IN  [i \in DOMAIN got |->
           Candidate(got[i], env.dist[got[i]],
                     IF env.centralized THEN IndexRoot
                     ELSE ChunkIndex[got[i]])]

\* line 611: the errors binary_cascade_search records in its own stats
\* while it searches the index paths one by one
Stage1Errors(env) ==
    IF env.centralized THEN <<>>
    ELSE KeepAt(IndexPaths, {i \in DOMAIN IndexPaths :
                                IndexPaths[i] \in env.failing}, 1)

\* lines 618-619, 1037-1038, 1366-1367
CoarseCandidates(env, coarse_k) ==
    Take(SortByDistance(Stage1Candidates(env)), coarse_k)

\* the keys of candidates_by_index in insertion order
GroupKeys(cands) ==
    LET first == {i \in DOMAIN cands :
                     \A j \in 1..(i - 1) :
                        cands[j].index_path # cands[i].index_path}
        kept == KeepAt(cands, first, 1)
    IN  [i \in DOMAIN kept |-> kept[i].index_path]

\* the candidates grouped under one key, in the order of the candidates
GroupOf(cands, ix) ==
    KeepAt(cands, {i \in DOMAIN cands : cands[i].index_path = ix}, 1)

\* the orders in which a store returns the rows of WHERE id IN (...)
RowOrders == {"by_id", "as_asked"}

\* the rows a store returns for the chunk ids of a group: those it can
\* read, in the order of their ids or in the order of the ids asked for
RowsOf(group, readable, rows) ==
    LET ids == IF rows = "by_id" THEN <<1, 2, 3>>
               ELSE [i \in DOMAIN group |-> group[i].chunk_id]
    IN  KeepAt(ids, {i \in DOMAIN ids :
                        /\ ids[i] \in readable
                        /\ \E j \in DOMAIN group : group[j].chunk_id = ids[i]}, 1)

\* next(d for cid, d, _ in coarse_candidates if cid == chunk_id)
DistanceOf(cands, c) ==
    cands[CHOOSE i \in DOMAIN cands :
              /\ cands[i].chunk_id = c
              /\ \A j \in 1..(i - 1) : cands[j].chunk_id # c].distance

\* concatenation of f[1], f[2], ...
RECURSIVE Flatten(_, _)
Flatten(f, i) == IF i > Len(f) THEN <<>> ELSE f[i] \o Flatten(f, i + 1)

\* line 1116 and 1718: score = 1.0 - distance / 256.0, in 256ths
HammingScore(d) == HammingBits - d

\* line 1453: score = max(0.0, 1.0 - distance), in DistDen-ths
DenseScore(d) == Max0(DistDen - d)

\* the first result of each path
FirstPerPath(items) ==
    KeepAt(items, {i \in DOMAIN items :
                      \A j \in 1..(i - 1) : items[j].path # items[i].path}, 1)

\* what a cascade variant hands back: the results, stats.errors, and the
\* variants entered
CascadeResult(den, items, errors, variant) ==
    [results |-> [den |-> den, items |-> items],
     errors |-> errors,
     ran |-> <<variant>>]

\* _cross_encoder_rerank, lines 1771-1825: the first top_k results as they
\* are when no reranker can be made
CrossEncoderRerank(env, list, top_k) ==
    IF list.items = <<>> THEN list
    ELSE IF ~env.reranker_ok THEN [list EXCEPT !.items = Take(@, top_k)]
    ELSE cross_encoder_rerank(list, env.ce, top_k)

\* hybrid_cascade_search, lines 333-437
hybrid_cascade_search(c, env) ==
    LET k == EffectiveK(c)
        coarse_k == EffectiveCoarseK(c)
        coarse_merged == merge_and_rank(env.hits, coarse_k, 0)
        final_results ==
            CrossEncoderRerank(env, [den |-> 2, items |-> coarse_merged], k)
    IN  CascadeResult(2, final_results.items, <<>>, "hybrid")

\* a fallback that carries the errors of stage 1 into the stats returned
FallBackKeepErrors(c, env, k, coarse_k, variant) ==
    LET h == hybrid_cascade_search([c EXCEPT !.k = k, !.coarse_k = coarse_k],
                                   env)
    IN  [h EXCEPT !.ran = <<variant>> \o @,
                  !.errors = Stage1Errors(env) \o @]

\* a fallback that enters the falling variant a second time before it
\* reaches hybrid_cascade_search
FallBackThroughItself(c, env, k, coarse_k, variant) ==
    LET h == hybrid_cascade_search([c EXCEPT !.k = k, !.coarse_k = coarse_k], env)
    IN  [h EXCEPT !.ran = <<variant, variant>> \o @]

\* return self.hybrid_cascade_search(query, source_path, k, coarse_k, options)
\* inside the variant named
FallBackToHybrid(c, env, k, coarse_k, variant) ==
    LET h == hybrid_cascade_search([c EXCEPT !.k = k, !.coarse_k = coarse_k],
                                   env)
    IN  [h EXCEPT !.ran = <<variant>> \o @]

\* lines 1047-1125 and 1375-1462: one result per chunk whose data is read,
\* group by group, scored from its Hamming or its dense distance
CoarseResults(cands, env, metric) ==
    LET keys == GroupKeys(cands)
    IN  Flatten([g \in DOMAIN keys |->
                   LET rows == RowsOf(GroupOf(cands, keys[g]), env.readable,
                                       env.rows)
                   IN  [r \in DOMAIN rows |->
                          Ranked(ChunkPath[rows[r]],
                                 IF metric = "hamming"
                                 THEN HammingScore(DistanceOf(cands, rows[r]))
                                 ELSE DenseScore(DistanceOf(cands, rows[r])))]],
                1)

\* _build_results_from_candidates, lines 1679-1753
BuildResultsFromCandidates(cands, env, errors) ==
    LET keys == GroupKeys(cands)
        results ==
            Flatten([g \in DOMAIN keys |->
                       LET chunk_tuples == GroupOf(cands, keys[g])
                           read == KeepAt(chunk_tuples,
                                          {i \in DOMAIN chunk_tuples :
                                              chunk_tuples[i].chunk_id
                                                  \in env.readable}, 1)
                       IN  [r \in DOMAIN read |->
                              Ranked(ChunkPath[read[r].chunk_id],
                                     HammingScore(read[r].distance))]], 1)
    IN  CascadeResult(HammingBits, SortDesc(DedupBest(results, 1, <<>>)),
                      errors, "binary")

\* lines 649-781: the cosine of every candidate row that has a dense
\* vector, best first, one result per path
DenseRerank(cands, env, k) ==
    LET keys == GroupKeys(cands)
        scored_results ==
            Flatten([g \in DOMAIN keys |->
                       LET rows == RowsOf(GroupOf(cands, keys[g]),
                                          env.readable \cap env.has_dense,
                                          env.rows)
                       IN  [r \in DOMAIN rows |->
                              Ranked(ChunkPath[rows[r]], env.cos[rows[r]])]], 1)
    IN  Take(FirstPerPath(SortDesc(scored_results)), k)

\* binary_cascade_search, lines 484-804
binary_cascade_search(c, env) ==
    LET k == EffectiveK(c)
        coarse_k == EffectiveCoarseK(c)
        coarse_candidates == CoarseCandidates(env, coarse_k)
    IN  IF ~env.backend_ok \/ Stage1Candidates(env) = <<>>
        THEN FallBackToHybrid(c, env, k, coarse_k, "binary")
        ELSE IF ~env.dense_ok
        THEN BuildResultsFromCandidates(Take(coarse_candidates, k), env,
                                        Stage1Errors(env))
        ELSE CascadeResult(1, DenseRerank(coarse_candidates, env, k),
                           Stage1Errors(env), "binary")

\* lines 1142-1156 and 1479-1493: the reranked results, one per path
RerankAndDedup(env, list, k) ==
    Take(DedupBest(CrossEncoderRerank(env, list, k).items, 1, <<>>), k)

\* binary_rerank_cascade_search, lines 919-1172
binary_rerank_cascade_search(c, env) ==
    LET k == EffectiveK(c)
        coarse_k == EffectiveCoarseK(c)
        coarse_results ==
            CoarseResults(CoarseCandidates(env, coarse_k), env, "hamming")
    IN  IF ~env.backend_ok \/ Stage1Candidates(env) = <<>>
        THEN FallBackToHybrid(c, env, k, coarse_k, "binary_rerank")
        ELSE CascadeResult(HammingBits,
                           RerankAndDedup(env, [den |-> HammingBits,
                                                items |-> coarse_results], k),
                           <<>>, "binary_rerank")

\* dense_rerank_cascade_search, lines 1206-1508
dense_rerank_cascade_search(c, env) ==
    LET k == EffectiveK(c)
        coarse_k == EffectiveCoarseK(c)
        coarse_results ==
            CoarseResults(CoarseCandidates(env, coarse_k), env, "dense")
    IN  IF ~env.backend_ok \/ Stage1Candidates(env) = <<>>
        THEN FallBackToHybrid(c, env, k, coarse_k, "dense_rerank")
        ELSE CascadeResult(DistDen,
                           RerankAndDedup(env, [den |-> DistDen,
                                                items |-> coarse_results], k),
                           <<>>, "dense_rerank")

\* cascade_search, lines 848-869
cascade_search(c, env) ==
    LET effective_strategy == EffectiveStrategy(c.strategy, c.config)
    IN  IF effective_strategy = "binary" THEN binary_cascade_search(c, env)
        ELSE IF effective_strategy = "binary_rerank"
        THEN binary_rerank_cascade_search(c, env)
        ELSE IF effective_strategy = "dense_rerank"
        THEN dense_rerank_cascade_search(c, env)
        ELSE hybrid_cascade_search(c, env)

(***************************************************************************)
(* SpecCascade: one cascade_search call; the call is drawn first, then    *)
(* the call runs against what the indexes and models hold.                *)
(***************************************************************************)
CascadeConfigs ==
    {[present |-> FALSE, cascade_strategy |-> "binary"]}
        \cup {[present |-> TRUE, cascade_strategy |-> s] : s \in StrategyNames}

CascadeCalls ==
    [strategy : {NoStrategy} \cup StrategyNames,
     config : CascadeConfigs,
     k : 0..MaxK,
     coarse_k : 0..MaxK]

\* every backend works, nothing is indexed
QuietEnv ==
    [backend_ok |-> TRUE, centralized |-> TRUE, found |-> {},
     dist |-> <<0, 1, 2>>, failing |-> {}, readable |-> ChunkIds,
     rows |-> "by_id",
     dense_ok |-> TRUE, has_dense |-> ChunkIds, cos |-> <<1, 0, 0>>,
     reranker_ok |-> FALSE, ce |-> [p \in {"a.py", "b.py"} |-> 0],
     hits |-> <<>>]

\* stage 1 finds candidates
Stage1Envs ==
    {e \in {[QuietEnv EXCEPT !.centralized = c, !.found = f, !.dist = d,
                             !.failing = x] :
               c \in BOOLEAN, f \in SUBSET ChunkIds, d \in DistTables,
               x \in {{}, {"d1"}}} :
        /\ e.centralized => e.failing = {}
        /\ Stage1Candidates(e) # <<>>}

\* stage 1 finds none: a backend is missing, nothing matches, or the one
\* index that matches cannot be searched
NoCandidateEnvs ==
    {[QuietEnv EXCEPT !.backend_ok = FALSE]}
        \cup {[QuietEnv EXCEPT !.centralized = c] : c \in BOOLEAN}
        \cup {[QuietEnv EXCEPT !.centralized = FALSE, !.found = {1, 3},
                               !.failing = {"d1"}]}

RerankerEnvs(e) ==
    {[e EXCEPT !.reranker_ok = TRUE, !.ce = x] : x \in CeTables} \cup {e}

HybridEnvs(e) ==
    UNION {RerankerEnvs([e EXCEPT !.hits = h]) : h \in CascadeHits}

ReadEnvs(e) == {[e EXCEPT !.readable = r] : r \in {ChunkIds, {2, 3}}}

RowEnvs(e) == {[e EXCEPT !.rows = o] : o \in RowOrders}

DenseEnvs(e) ==
    {[e EXCEPT !.dense_ok = FALSE], [e EXCEPT !.has_dense = {}]}
        \cup {[e EXCEPT !.cos = x] : x \in CosTables}

\* what a call of the variant can meet
CascadeEnvs(variant) ==
    IF variant = "hybrid" THEN HybridEnvs(QuietEnv)
    ELSE UNION {HybridEnvs(e) : e \in NoCandidateEnvs}
         \cup UNION {UNION {IF variant = "binary" THEN DenseEnvs(r)
                            ELSE UNION {RerankerEnvs(o) : o \in RowEnvs(r)} :
                               r \in ReadEnvs(e)} :
                        e \in Stage1Envs}

GInit ==
    /\ EngineIdle
    /\ GRest
    /\ gcall \in CascadeCalls
    /\ genv = <<>>
    /\ gran = <<>>
    /\ gresult = <<>>
    /\ gpc = "called"

CascadeSearch ==
    /\ gpc = "called"
    /\ \E env \in CascadeEnvs(EffectiveStrategy(gcall.strategy, gcall.config)) :
          LET r == cascade_search(gcall, env)
          IN  /\ genv' = env
              /\ gran' = r.ran
              /\ gresult' = [results |-> r.results, errors |-> r.errors]
    /\ gpc' = "done"
    /\ UNCHANGED <<gcall, GOther>>

GNext == CascadeSearch

SpecCascade == GInit /\ [][GNext]_vars

\* the strategy named by the explicit argument, else by the config, else
\* binary
NamedStrategy(c) ==
    IF c.strategy \in ValidStrategies THEN c.strategy
    ELSE IF c.config.present /\ c.config.cascade_strategy \in ValidStrategies
    THEN c.config.cascade_strategy
    ELSE "binary"

\* C21: cascade_search enters the variant named by the strategy argument
\* when that is one of the four, else the one named by the config's
\* cascade_strategy when that is one of the four, else binary.
C21_StrategyPrecedence ==
    gpc = "done" => gran[1] = NamedStrategy(gcall)

\* C22: when stage 1 of the binary or the binary_rerank cascade yields no
\* candidate, the call returns the results and the stats.errors that
\* hybrid_cascade_search returns for the same arguments, and none of the
\* errors of stage 1.
C22_FallbackIsHybrid ==
    (/\ gpc = "done"
     /\ gran[1] \in {"binary", "binary_rerank"}
     /\ Stage1Candidates(genv) = <<>>)
        => LET h == hybrid_cascade_search(gcall, genv)
           IN  /\ gran = <<gran[1], "hybrid">>
               /\ gresult.results = h.results
               /\ gresult.errors = h.errors
               /\ \A i \in DOMAIN Stage1Errors(genv) :
                     \A j \in DOMAIN gresult.errors :
                        gresult.errors[j] # Stage1Errors(genv)[i]

\* a binary cascade whose only matching index raised, called with k = 0
\* on an engine with a config, returned what the hybrid cascade found
C22_Witness ==
    /\ gpc = "done"
    /\ gran = <<"binary", "hybrid">>
    /\ Stage1Errors(genv) # <<>>
    /\ genv.found # {}
    /\ gcall.k = 0
    /\ gcall.config.present
    /\ Len(gresult.results.items) = 2

\* the candidates handed to the second stage whose chunk data can be read
ReadableCandidates ==
    LET cands == Take(CoarseCandidates(genv, EffectiveCoarseK(gcall)),
                      EffectiveK(gcall))
    IN  {cands[i] : i \in {j \in DOMAIN cands :
                              cands[j].chunk_id \in genv.readable}}

\* the second stage of the call has no dense embedding to work with
NoDenseEmbeddings ==
    \/ ~genv.dense_ok
    \/ \A c \in ReadableCandidates : c.chunk_id \notin genv.has_dense

\* C23: a binary cascade with candidates and no dense embeddings returns
\* the files of the candidates whose chunk data can be read, each scored
\* 1 - distance/256 for its nearest chunk.
C23_HammingFallback ==
    (/\ gpc = "done"
     /\ gran = <<"binary">>
     /\ NoDenseEmbeddings)
        => LET items == gresult.results.items
           IN  /\ {items[i].path : i \in DOMAIN items}
                     = {ChunkPath[c.chunk_id] : c \in ReadableCandidates}
               /\ \A i \in DOMAIN items :
                     /\ gresult.results.den = HammingBits
                     /\ \E c \in ReadableCandidates :
                           /\ ChunkPath[c.chunk_id] = items[i].path
                           /\ items[i].score = HammingBits - c.distance
                     /\ \A c \in ReadableCandidates :
                           ChunkPath[c.chunk_id] = items[i].path
                              => items[i].score >= HammingBits - c.distance

\* C24: a cascade call returns at most k results.
C24_AtMostK ==
    gpc = "done" => Len(gresult.results.items) <= gcall.k

\* C25: the results of a cascade call are in order of non-increasing score.
C25_SortedByScore ==
    gpc = "done"
        => \A i, j \in DOMAIN gresult.results.items :
              i < j => gresult.results.items[i].score
                          >= gresult.results.items[j].score

\* C40: every cascade_search call ends after entering at most two cascade
\* variants: binary, binary_rerank and dense_rerank fall back only to
\* hybrid_cascade_search, and hybrid_cascade_search falls back to none, so
\* no variant is entered twice.
C40_AtMostTwoVariants ==
    gpc = "done" =>
        /\ Len(gran) \in {1, 2}
        /\ \A i \in DOMAIN gran : gran[i] \in ValidStrategies
        /\ Len(gran) = 2 =>
              /\ gran[1] \in {"binary", "binary_rerank", "dense_rerank"}
              /\ gran[2] = "hybrid"

\* a dense_rerank call whose stage 1 found nothing and fell back to hybrid
C40_Witness ==
    /\ gpc = "done"
    /\ gran = <<"dense_rerank", "hybrid">>
    /\ NamedStrategy(gcall) = "dense_rerank"

(***************************************************************************)
(* APIReranker._request_json, api_reranker.py 184-252: the retry loop, one *)
(* step per POST.  The raise behind the loop (line 250) is never reached:  *)
(* the last pass of the loop returns or raises.                            *)
(***************************************************************************)
\* largest max_retries handed to the constructor
MaxRetries == 2

\* max_retries of a reranker built with max_retries=0 or less, line 122
DefaultMaxRetries == 3

Statuses == {200, 400, 401, 403, 404, 429, 500, 503}

\* self._client.post raised
TransportError == [kind |-> "exc", status |-> 0, body |-> "none"]

\* a response with its status code and what response.json() makes of it
HttpResponse(s, b) == [kind |-> "http", status |-> s, body |-> b]

Responses ==
    {TransportError}
        \cup {HttpResponse(s, "object") : s \in Statuses}
        \cup {HttpResponse(200, "array"), HttpResponse(200, "invalid")}

\* a _should_retry_status that retries every error status
RetryEveryStatus(status_code) == TRUE

\* _should_retry_status, lines 181-182
ShouldRetryStatus(status_code) ==
    status_code = 429 \/ (500 <= status_code /\ status_code <= 599)

\* line 122: int(max_retries) if max_retries and int(max_retries) >= 0 else 3
InitMaxRetries(arg) ==
    IF arg # 0 /\ arg >= 0 THEN arg ELSE DefaultMaxRetries

Raised ==
    {"raised_transport", "raised_unauthorized", "raised_status", "raised_json"}

AInit ==
    /\ EngineIdle
    /\ ARest
    /\ max_retries_arg \in 0..MaxRetries
    /\ max_retries = InitMaxRetries(max_retries_arg)
    /\ attempt = 0
    /\ posts = <<>>
    /\ slept = {}
    /\ outcome_json = "running"

\* lines 193-194 and 220-221: _sleep_backoff(attempt), continue
SleepAndRetry ==
    /\ slept' = slept \cup {attempt}
    /\ attempt' = attempt + 1
    /\ UNCHANGED outcome_json

\* the call ends
EndRequest(how) ==
    /\ outcome_json' = how
    /\ UNCHANGED <<attempt, slept>>

\* one pass of the loop, lines 187-248, with r the answer to the POST
Post(r) ==
    /\ outcome_json = "running"
    /\ attempt <= max_retries
    /\ posts' = Append(posts, r)
    /\ IF r.kind = "exc"
       THEN IF attempt < max_retries THEN SleepAndRetry
            ELSE EndRequest("raised_transport")
       ELSE IF r.status >= 400
       THEN IF ShouldRetryStatus(r.status) /\ attempt < max_retries
            THEN SleepAndRetry
            ELSE IF r.status \in {401, 403}
            THEN EndRequest("raised_unauthorized")
            ELSE EndRequest("raised_status")
       ELSE IF r.body # "object" THEN EndRequest("raised_json")
       ELSE EndRequest("returned")
    /\ UNCHANGED <<max_retries_arg, max_retries, AOther>>

ANext == \E r \in Responses : Post(r)

SpecRequest == AInit /\ [][ANext]_vars

\* an error status that is neither 429 nor 5xx
NoRetryStatus(r) ==
    /\ r.kind = "http"
    /\ r.status >= 400
    /\ r.status # 429
    /\ ~(500 <= r.status /\ r.status <= 599)

\* C26: a response with status 401 or 403, or any other error status that
\* is neither 429 nor 5xx, is the last response of the call: the call
\* raises (unauthorized for 401 and 403) without sleeping after it and
\* without another POST, whatever max_retries is.
C26_NoRetryOnClientError ==
    \A i \in DOMAIN posts :
        NoRetryStatus(posts[i])
            => /\ i = Len(posts)
               /\ (i - 1) \notin slept
               /\ outcome_json =
                     IF posts[i].status \in {401, 403}
                     THEN "raised_unauthorized"
                     ELSE "raised_status"

\* a 403 answered the second POST of a call that could have retried more
C26_Witness ==
    /\ Len(posts) = 2
    /\ posts[1].status = 429
    /\ posts[2].status = 403
    /\ attempt < max_retries
    /\ outcome_json = "raised_unauthorized"

\* a POST that failed: no response, or an error status
FailedPost(r) == r.kind = "exc" \/ r.status >= 400

\* a POST after which the loop may go round again
RetryablePost(r) ==
    r.kind = "exc" \/ r.status = 429 \/ (500 <= r.status /\ r.status <= 599)

\* C27: a reranker built with max_retries = n issues at most n + 1 POSTs
\* per call; every POST but the last was answered by 429, 5xx or a
\* transport error; the call returns only on a response with a status
\* below 400, the first one, and raises when POST n + 1 fails too.
C27_AtMostNPlusOnePosts ==
    /\ Len(posts) <= max_retries_arg + 1
    /\ \A i \in DOMAIN posts : i < Len(posts) => RetryablePost(posts[i])
    /\ outcome_json = "returned" => ~FailedPost(posts[Len(posts)])
    /\ (/\ Len(posts) = max_retries_arg + 1
        /\ FailedPost(posts[Len(posts)])) => outcome_json \in Raised
    /\ \A i \in DOMAIN posts :
          ~FailedPost(posts[i]) => i = Len(posts) /\ outcome_json # "running"

(***************************************************************************)
(* APIReranker._extract_scores_from_results, api_reranker.py 254-284.      *)
(***************************************************************************)
\* largest number of documents a response is read for
MaxExpected == 2

\* an element of 'results' that is no dict
NotADict ==
    [dict |-> FALSE, has_index |-> FALSE, index |-> 0,
     has_score |-> FALSE, score |-> 0]

\* a dict with an "index" and a "relevance_score" (or "score")
ScoredItem(i, s) ==
    [dict |-> TRUE, has_index |-> TRUE, index |-> i,
     has_score |-> TRUE, score |-> s]

\* the elements a response can hold: index or score may be missing (or not
\* a number), the index may lie outside 0..expected-1
ResultItems ==
    {NotADict,
     [NotADict EXCEPT !.dict = TRUE],
     [ScoredItem(0, 0) EXCEPT !.has_score = FALSE]}
        \cup {ScoredItem(i, s) : i \in (-1)..MaxExpected, s \in {1, 2}}

\* what data.get("results") can be: a list, or something else
ResultValues ==
    {[is_list |-> TRUE, items |-> l] :
        l \in SeqsUpTo(ResultItems, MaxExpected + 1)}
        \cup {[is_list |-> FALSE, items |-> <<>>]}

\* raise RuntimeError
ExtractRaised == [raised |-> TRUE, scores |-> <<>>]

\* lines 262-276: the loop over the items, from item i on
RECURSIVE ExtractFrom(_, _, _, _, _)
ExtractFrom(items, i, expected, scores, filled) ==
    IF i > Len(items) THEN [scores |-> scores, filled |-> filled]
    ELSE LET item == items[i]
         IN  IF /\ item.dict
                /\ item.has_index
                /\ item.has_score
                /\ 0 <= item.index
                /\ item.index < expected
             THEN ExtractFrom(items, i + 1, expected,
                              [scores EXCEPT ![item.index + 1] = item.score],
                              filled + 1)
             ELSE ExtractFrom(items, i + 1, expected, scores, filled)

\* a reading of the results that takes the scores in the order received
ScoresAsReceived(results, expected) ==
    [raised |-> FALSE,
     scores |-> [i \in DOMAIN results.items |-> results.items[i].score]]

\* _extract_scores_from_results(results, expected); element i of the list
\* of the code is element i + 1 here
extract_scores_from_results(results, expected) ==
    IF ~results.is_list THEN ExtractRaised
    ELSE LET r == ExtractFrom(results.items, 1, expected,
                              [i \in 1..expected |-> 0], 0)
         IN  IF r.filled # expected THEN ExtractRaised
             ELSE [raised |-> FALSE, scores |-> r.scores]

PInit ==
    /\ EngineIdle
    /\ PRest
    /\ presults \in ResultValues
    /\ pexpected \in 0..MaxExpected
    /\ pout = <<>>
    /\ ppc = "called"

ExtractScores ==
    /\ ppc = "called"
    /\ pout' = extract_scores_from_results(presults, pexpected)
    /\ ppc' = "done"
    /\ UNCHANGED <<presults, pexpected, POther>>

PNext == ExtractScores

SpecExtract == PInit /\ [][PNext]_vars

\* the scores the response gives for index i
ScoresFor(i) ==
    {presults.items[j].score :
        j \in {n \in DOMAIN presults.items :
                  /\ presults.items[n].dict
                  /\ presults.items[n].has_index
                  /\ presults.items[n].has_score
                  /\ presults.items[n].index = i}}

\* C29: the call returns a list only if results is a list that gives a
\* score for every index 0..expected-1, and element i of the list is a
\* score given for index i; otherwise it raises.
C29_ScoreForEveryIndex ==
    ppc = "done"
        => /\ ~pout.raised
                => /\ presults.is_list
                   /\ Len(pout.scores) = pexpected
                   /\ \A i \in 0..(pexpected - 1) :
                         pout.scores[i + 1] \in ScoresFor(i)
           /\ ~(/\ presults.is_list
                /\ \A i \in 0..(pexpected - 1) : ScoresFor(i) # {})
                => pout.raised

(***************************************************************************)
(* APIReranker.score_pairs, api_reranker.py 286-403.  The provider         *)
(* answers a request with one result per document, best first; a request  *)
(* that fails makes _request_json raise.                                   *)
(***************************************************************************)
\* largest number of pairs of a call
MaxPairs == 3

\* largest max_input_tokens of a reranker
MaxInputTokens == 4

\* queries of 0 and 1 estimated tokens, documents of 0, 1 and 2
RerankQueries == {"q", "sort"}
RerankDocs == {"ab", "pass", "x = y + 1"}

\* _estimate_tokens, line 303
EstimateTokens(text) == Len(text) \div 4

\* line 315: int(self._max_input_tokens * 0.9)
TokenLimit(max_input_tokens) == (9 * max_input_tokens) \div 10

\* a batching that puts every document in one batch
OneBatch(query, documents, max_input_tokens) ==
    IF documents = <<>> THEN <<>>
    ELSE <<[i \in DOMAIN documents |-> [idx |-> i - 1, doc |-> documents[i]]]>>

\* lines 322-343: the loop over the documents, from document i on, with
\* current_batch and current_tokens as batch and tokens
RECURSIVE BatchFrom(_, _, _, _, _, _, _)
BatchFrom(documents, i, max_tokens, query_tokens, batches, batch, tokens) ==
    IF i > Len(documents)
    THEN IF batch # <<>> THEN Append(batches, batch) ELSE batches
    ELSE LET doc_tokens == EstimateTokens(documents[i])
             full == tokens + doc_tokens > max_tokens /\ batch # <<>>
         IN  BatchFrom(documents, i + 1, max_tokens, query_tokens,
                       IF full THEN Append(batches, batch) ELSE batches,
                       Append(IF full THEN <<>> ELSE batch,
                              [idx |-> i - 1, doc |-> documents[i]]),
                       (IF full THEN query_tokens ELSE tokens) + doc_tokens)

\* _create_token_aware_batches, lines 305-345
create_token_aware_batches(query, documents, max_input_tokens) ==
    BatchFrom(documents, 1, TokenLimit(max_input_tokens),
              EstimateTokens(query), <<>>, <<>>, EstimateTokens(query))

\* the relevance the provider gives a document for a query
Relevance(query, doc) == 16 * Len(query) + Len(doc)

\* the 'results' of the provider for a payload: index and relevance_score
\* of every document, the most relevant first
ProviderResults(query, documents) ==
    SortDesc([i \in DOMAIN documents |->
                 ScoredItem(i - 1, Relevance(query, documents[i]))])

\* lines 356-359 and 371-374: one request and the scores read from it
RequestScores(query, documents) ==
    extract_scores_from_results(
        [is_list |-> TRUE, items |-> ProviderResults(query, documents)],
        Len(documents)).scores

\* lines 369-378: the requests for batch b and those behind it; fail is
\* the number of the request that raises
RECURSIVE RerankBatches(_, _, _, _, _, _)
RerankBatches(query, batches, b, all_scores, requests, fail) ==
    IF b > Len(batches)
    THEN [raised |-> FALSE, scores |-> all_scores, requests |-> requests]
    ELSE LET batch == batches[b]
             batch_docs == [i \in DOMAIN batch |-> batch[i].doc]
             sent == Append(requests,
                            [query |-> query, documents |-> batch_docs])
             batch_scores == RequestScores(query, batch_docs)
         IN  IF Len(sent) = fail
             THEN [raised |-> TRUE, scores |-> <<>>, requests |-> sent]
             ELSE RerankBatches(
                      query, batches, b + 1,
                      [i \in DOMAIN all_scores |->
                          IF \E j \in DOMAIN batch : batch[j].idx = i - 1
                          THEN batch_scores[CHOOSE j \in DOMAIN batch :
                                                batch[j].idx = i - 1]
                          ELSE all_scores[i]],
                      sent, fail)

\* _rerank_one_query, lines 347-380
rerank_one_query(query, documents, batches, requests, fail) ==
    IF documents = <<>>
    THEN [raised |-> FALSE, scores |-> <<>>, requests |-> requests]
    ELSE IF Len(batches) = 1
    THEN LET sent == Append(requests,
                            [query |-> query, documents |-> documents])
         IN  IF Len(sent) = fail
             THEN [raised |-> TRUE, scores |-> <<>>, requests |-> sent]
             ELSE [raised |-> FALSE,
                   scores |-> RequestScores(query, documents),
                   requests |-> sent]
    ELSE RerankBatches(query, batches, 1, [i \in DOMAIN documents |-> 0],
                       requests, fail)

\* lines 391-393: the keys of grouped in insertion order
GroupedQueries(pairs) ==
    LET first == {i \in DOMAIN pairs :
                     \A j \in 1..(i - 1) : pairs[j].query # pairs[i].query}
        kept == KeepAt(pairs, first, 1)
    IN  [i \in DOMAIN kept |-> kept[i].query]

\* grouped[query]: (idx, doc) of the pairs of the query
GroupedItems(pairs, query) ==
    LET at == KeepAt([i \in DOMAIN pairs |-> i],
                     {i \in DOMAIN pairs : pairs[i].query = query}, 1)
    IN  [n \in DOMAIN at |-> [idx |-> at[n] - 1, doc |-> pairs[at[n]].doc]]

\* lines 397-401: the loop over grouped, from query g on, for a reranker
\* whose max_input_tokens is max_tokens
RECURSIVE ScoreGroups(_, _, _, _, _, _, _, _)
ScoreGroups(pairs, queries, g, max_tokens, scores, made, requests, fail) ==
    IF g > Len(queries)
    THEN [raised |-> FALSE, scores |-> scores, batches |-> made,
          requests |-> requests]
    ELSE LET items == GroupedItems(pairs, queries[g])
             documents == [i \in DOMAIN items |-> items[i].doc]
             batches == create_token_aware_batches(queries[g], documents,
                                                   max_tokens)
             now == Append(made, [query |-> queries[g], batches |-> batches])
             r == rerank_one_query(queries[g], documents, batches, requests,
                                   fail)
         IN  IF r.raised
             THEN [raised |-> TRUE, scores |-> <<>>, batches |-> now,
                   requests |-> r.requests]
             ELSE ScoreGroups(
                      pairs, queries, g + 1, max_tokens,
                      [i \in DOMAIN scores |->
                          IF \E j \in DOMAIN items : items[j].idx = i - 1
                          THEN r.scores[CHOOSE j \in DOMAIN items :
                                            items[j].idx = i - 1]
                          ELSE scores[i]],
                      now, r.requests, fail)

\* score_pairs, lines 382-403
score_pairs(pairs, max_input_tokens, fail) ==
    IF pairs = <<>>
    THEN [raised |-> FALSE, scores |-> <<>>, batches |-> <<>>,
          requests |-> <<>>]
    ELSE ScoreGroups(pairs, GroupedQueries(pairs), 1, max_input_tokens,
                     [i \in DOMAIN pairs |-> 0], <<>>, <<>>, fail)

(***************************************************************************)
(* SpecPairs: one score_pairs call.                                        *)
(***************************************************************************)
BInit ==
    /\ EngineIdle
    /\ BRest
    /\ bpairs \in SeqsUpTo([query : RerankQueries, doc : RerankDocs], MaxPairs)
    /\ bmax_input_tokens \in 1..MaxInputTokens
    /\ bfail \in 0..MaxPairs
    /\ bbatches = <<>>
    /\ brequests = <<>>
    /\ bscores = <<>>
    /\ bpc = "called"

ScorePairs ==
    /\ bpc = "called"
    /\ LET r == score_pairs(bpairs, bmax_input_tokens, bfail)
       IN  /\ bbatches' = r.batches
           /\ brequests' = r.requests
           /\ bscores' = r.scores
           /\ bpc' = IF r.raised THEN "raised" ELSE "returned"
    /\ UNCHANGED <<bpairs, bmax_input_tokens, bfail, BOther>>

BNext == ScorePairs

SpecPairs == BInit /\ [][BNext]_vars

\* the estimated tokens of a batch together with the query
BatchTokens(query, batch) ==
    LET RECURSIVE Sum(_)
        Sum(i) == IF i = 0 THEN 0
                  ELSE EstimateTokens(batch[i].doc) + Sum(i - 1)
    IN  EstimateTokens(query) + Sum(Len(batch))

\* C28: in every batch made, the estimated tokens of the query and of the
\* documents of the batch are at most floor(0.9 * max_input_tokens), unless
\* the batch holds a single document.
C28_BatchWithinLimit ==
    \A g \in DOMAIN bbatches :
        \A b \in DOMAIN bbatches[g].batches :
            \/ Len(bbatches[g].batches[b]) = 1
            \/ 10 * BatchTokens(bbatches[g].query, bbatches[g].batches[b])
                  <= 9 * bmax_input_tokens

\* three documents of one query were split into a batch of two that fills
\* the limit and a batch of one
C28_Witness ==
    /\ bpc = "returned"
    /\ Len(bbatches) = 1
    /\ Len(bbatches[1].batches) = 2
    /\ Len(bbatches[1].batches[1]) = 2
    /\ BatchTokens(bbatches[1].query, bbatches[1].batches[1])
          = TokenLimit(bmax_input_tokens)

\* the pairs whose document a request carries, as a bag of (query, doc)
SentCount(q, d) ==
    LET RECURSIVE Count(_)
        Count(n) ==
            IF n = 0 THEN 0
            ELSE Count(n - 1)
                 + (IF brequests[n].query = q
                    THEN Cardinality({i \in DOMAIN brequests[n].documents :
                                         brequests[n].documents[i] = d})
                    ELSE 0)
    IN  Count(Len(brequests))

\* C30: a score_pairs call that returns gives one score per pair, the
\* score of pair i at position i, however the queries are mixed and the
\* documents batched; every document of a pair is sent in exactly one
\* request; for no pairs the call returns [] and sends nothing.
C30_OneScorePerPair ==
    bpc = "returned"
        => /\ Len(bscores) = Len(bpairs)
           /\ \A i \in DOMAIN bpairs :
                 bscores[i] = Relevance(bpairs[i].query, bpairs[i].doc)
           /\ \A q \in RerankQueries, d \in RerankDocs :
                 SentCount(q, d)
                    = Cardinality({i \in DOMAIN bpairs :
                                      bpairs[i] = [query |-> q, doc |-> d]})
           /\ bpairs = <<>> => bscores = <<>> /\ brequests = <<>>

\* two queries interleaved, the documents of one of them sent in two
\* requests
C30_Witness ==
    /\ bpc = "returned"
    /\ Len(bpairs) = 3
    /\ bpairs[1].query = bpairs[3].query
    /\ bpairs[1].query # bpairs[2].query
    /\ Relevance(bpairs[1].query, bpairs[1].doc)
          < Relevance(bpairs[3].query, bpairs[3].doc)
    /\ Len(brequests) = 3

(***************************************************************************)
(* FileWatcher, watcher/file_watcher.py 95-347.  The threads are the       *)
(* watchdog observer thread, which runs _on_raw_event for one event at a   *)
(* time, one thread per threading.Timer, a thread that calls flush_now()   *)
(* (the signal-file loop or a client) and a client thread that calls       *)
(* start() and stop().  The statements under _queue_lock are one step; the *)
(* statements of stop() that touch _flush_timer without _queue_lock are    *)
(* one step each.  Events are numbered in the order _on_raw_event gets     *)
(* them, and the Timer started with event i is timer i.                    *)
(***************************************************************************)
\* the events the observer delivers in a run
MaxEvents == 3

\* the queue size that forces a flush: MAX_QUEUE_SIZE (line 21), scaled to
\* the events of a run
MaxQueueSize == 2

\* the events queued when a single flush is looked at
MaxQueued == 4

WatchedPaths == {"a.py", "b.py"}

\* the path of the i-th event the observer reports: the two files change in
\* turn
ReportedPath(i) == IF i % 2 = 1 THEN "a.py" ELSE "b.py"

WThreadNames == {"obs", "sig", "stop"}

\* a thread that can run _flush_events: a timer thread or a named one
Flushers ==
    {[by |-> "timer", timer |-> t] : t \in 1..MaxEvents}
        \cup {[by |-> c, timer |-> 0] : c \in WThreadNames}

IdleThreads == [c \in WThreadNames |-> "idle"]

NoApiCalls == "none"

NoManager == [running |-> FALSE, indexer |-> FALSE, closed |-> FALSE]

\* Timer.cancel() sets the timer's finished event: that ends a timer that
\* still waits for its interval and does nothing to one whose function has
\* been called
Cancel(ts, t) ==
    IF t # 0 /\ ts[t] = "waiting" THEN [ts EXCEPT ![t] = "finished"] ELSE ts

\* the last event of q with the path of the event at position i
LastForPath(q, paths, i) ==
    q[CHOOSE j \in DOMAIN q :
          /\ paths[q[j]] = paths[q[i]]
          /\ \A k \in (j + 1)..Len(q) : paths[q[k]] # paths[q[i]]]

\* the positions of q at which a path occurs for the first time
FirstOfPath(q, paths) ==
    {i \in DOMAIN q : \A j \in 1..(i - 1) : paths[q[j]] # paths[q[i]]}

\* a deduplication that keeps the first event of each path
DedupedKeepFirst(q, paths) == KeepAt(q, FirstOfPath(q, paths), 1)

\* lines 207-212: deduped[event.path] = event for each queued event, then
\* list(deduped.values()): a dict keeps the position of the first insertion
\* of a key and the value of the last
Deduped(q, paths) ==
    KeepAt([i \in DOMAIN q |-> LastForPath(q, paths, i)], FirstOfPath(q, paths), 1)

\* a flush that leaves the events it read in the queue
QueueNotCleared(q) == q

\* line 213: self._event_queue.clear()
ClearedQueue(q) == <<>>

\* the position of a thread
PcOf(f) == IF f.by = "timer" THEN timers[f.timer] ELSE wthreads[f.by]

\* where a thread is once its _flush_events has returned
AfterFlush(f) ==
    IF f.by = "timer" THEN "finished"
    ELSE IF f.by = "obs" THEN "idle"
    ELSE "returned"

\* the thread f moves to position v
MoveTo(f, v) ==
    /\ timers' = IF f.by = "timer" THEN [timers EXCEPT ![f.timer] = v] ELSE timers
    /\ wthreads' = IF f.by = "timer" THEN wthreads ELSE [wthreads EXCEPT ![f.by] = v]

\* what a flush by f removes from the queue and what it will hand to
\* on_changes; early: an event of the input was queued less than
\* debounce_ms ago
FlushRecord(f) ==
    [by |-> f.by, timer |-> f.timer,
     input |-> event_queue,
     batch |-> Deduped(event_queue, event_path),
     early |-> \E i \in DOMAIN event_queue : event_queue[i] > elapsed,
     handed |-> FALSE,
     indexed |-> "no"]

\* the flush of f whose batch has not been handed to on_changes yet
HeldBy(f) ==
    CHOOSE i \in DOMAIN flushes :
        flushes[i].by = f.by /\ flushes[i].timer = f.timer /\ ~flushes[i].handed

WatcherInit ==
    /\ w_running = FALSE
    /\ observer = "none"
    /\ event_queue = <<>>
    /\ event_path = <<>>
    /\ flush_timer = 0
    /\ timers = <<>>
    /\ elapsed = 0
    /\ wthreads = IdleThreads
    /\ flushes = <<>>
    /\ api_calls = NoApiCalls
    /\ manager = NoManager
    /\ EngineIdle
    /\ WRest

\* the last of the start() and stop() calls made is op
Called(op) == api_calls' = op

\* FileWatcher.start(), lines 269-298, under _lock: nothing happens when
\* the watcher runs already
WatcherStart ==
    /\ wthreads.stop = "idle"
    /\ Called("start")
    /\ IF w_running
       THEN UNCHANGED <<w_running, observer>>
       ELSE w_running' = TRUE /\ observer' = "alive"
    /\ UNCHANGED <<event_queue, event_path, flush_timer, timers, elapsed,
                   wthreads, flushes, manager, WOther>>

\* _on_raw_event, lines 148-185, the statements under _queue_lock: a full
\* queue cancels the timer and asks for a flush (lines 154-162); the event
\* is appended (line 164); otherwise the previous timer is cancelled and a
\* new one started (lines 169-178)
RawEvent ==
    /\ observer = "alive"
    /\ wthreads.obs = "idle"
    /\ Len(event_path) < MaxEvents
    /\ LET id == Len(event_path) + 1
           force_flush == Len(event_queue) >= MaxQueueSize
       IN  /\ event_path' = Append(event_path, ReportedPath(id))
           /\ event_queue' = Append(event_queue, id)
           /\ timers' = Append(Cancel(timers, flush_timer),
                               IF force_flush THEN "none" ELSE "waiting")
           /\ flush_timer' = IF force_flush THEN 0 ELSE id
           /\ wthreads' = [wthreads EXCEPT
                             !.obs = IF force_flush THEN "flush" ELSE "idle"]
    /\ UNCHANGED <<w_running, observer, elapsed, flushes, api_calls, manager,
                   WOther>>

\* _on_raw_event racing with line 315 of stop(), which is not under
\* _queue_lock: the handler finds _flush_timer set (line 159 or 170), stop()
\* sets it to None, and self._flush_timer.cancel() (line 160 or 171) raises
\* AttributeError; with a full queue that is before the append of line 164
RawEventRaced ==
    /\ observer = "alive"
    /\ wthreads.obs = "idle"
    /\ Len(event_path) < MaxEvents
    /\ wthreads.stop = "s_clear"
    /\ flush_timer # 0
    /\ flush_timer' = 0
    /\ wthreads' = [wthreads EXCEPT !.stop = "s_join"]
    /\ IF Len(event_queue) >= MaxQueueSize
       THEN UNCHANGED <<event_path, event_queue, timers>>
       ELSE /\ event_path' = Append(event_path, ReportedPath(Len(event_path) + 1))
            /\ event_queue' = Append(event_queue, Len(event_path) + 1)
            /\ timers' = Append(timers, "none")
    /\ UNCHANGED <<w_running, observer, elapsed, flushes, api_calls, manager,
                   WOther>>

\* threading.Timer.run: the interval of timer t (line 173) has passed and
\* the timer was not cancelled, so its thread calls _flush_events.  By then
\* debounce_ms have passed since event t and every earlier one was queued;
\* a later event may have been queued any time before that
TimerFire(t) ==
    /\ t \in DOMAIN timers
    /\ timers[t] = "waiting"
    /\ timers' = [timers EXCEPT ![t] = "flush"]
    /\ elapsed' = IF t > elapsed THEN t ELSE elapsed
    /\ UNCHANGED <<w_running, observer, event_queue, event_path, flush_timer,
                   wthreads, flushes, api_calls, manager, WOther>>

\* _flush_events, lines 201-214, the statements under _queue_lock
FlushEvents(f) ==
    /\ f.by = "timer" => f.timer \in DOMAIN timers
    /\ PcOf(f) = "flush"
    /\ IF event_queue = <<>>
       THEN /\ MoveTo(f, AfterFlush(f))
            /\ UNCHANGED <<event_queue, flushes>>
       ELSE /\ flushes' = Append(flushes, FlushRecord(f))
            /\ event_queue' = ClearedQueue(event_queue)
            /\ MoveTo(f, "call")
    /\ UNCHANGED <<w_running, observer, event_path, flush_timer, elapsed,
                   api_calls, manager, WOther>>

\* _flush_events, lines 216-223: self.on_changes(events), any exception of
\* the callback logged
OnChanges(f) ==
    /\ f.by = "timer" => f.timer \in DOMAIN timers
    /\ PcOf(f) = "call"
    /\ flushes' = [flushes EXCEPT ![HeldBy(f)].handed = TRUE]
    /\ MoveTo(f, AfterFlush(f))
    /\ UNCHANGED <<w_running, observer, event_queue, event_path, flush_timer,
                   elapsed, api_calls, manager, WOther>>

\* a flush_now that cancels the timer and does not flush
FlushNowCancelOnly ==
    /\ wthreads.sig = "idle"
    /\ timers' = Cancel(timers, flush_timer)
    /\ flush_timer' = 0
    /\ UNCHANGED <<w_running, observer, event_queue, event_path, elapsed,
                   wthreads, flushes, api_calls, manager, WOther>>

\* flush_now, lines 225-231: the timer is cancelled under _queue_lock, then
\* _flush_events is called
FlushNow ==
    /\ wthreads.sig = "idle"
    /\ timers' = Cancel(timers, flush_timer)
    /\ flush_timer' = 0
    /\ wthreads' = [wthreads EXCEPT !.sig = "flush"]
    /\ UNCHANGED <<w_running, observer, event_queue, event_path, elapsed,
                   flushes, api_calls, manager, WOther>>

\* FileWatcher.stop(), lines 300-313, under _lock: nothing happens when the
\* watcher does not run; else _running is cleared and _flush_timer is read
\* (if self._flush_timer, without _queue_lock)
StopEnter ==
    /\ wthreads.stop = "idle"
    /\ Called("stop")
    /\ IF w_running
       THEN /\ w_running' = FALSE
            /\ wthreads' = [wthreads EXCEPT
                  !.stop = IF flush_timer # 0 THEN "s_cancel" ELSE "s_join"]
       ELSE UNCHANGED <<w_running, wthreads>>
    /\ UNCHANGED <<observer, event_queue, event_path, flush_timer, timers,
                   elapsed, flushes, manager, WOther>>

\* line 314: self._flush_timer.cancel(); the attribute is read again, and
\* AttributeError leaves stop() when it has become None
StopCancelTimer ==
    /\ wthreads.stop = "s_cancel"
    /\ timers' = Cancel(timers, flush_timer)
    /\ wthreads' = [wthreads EXCEPT
                      !.stop = IF flush_timer = 0 THEN "raised" ELSE "s_clear"]
    /\ UNCHANGED <<w_running, observer, event_queue, event_path, flush_timer,
                   elapsed, flushes, api_calls, manager, WOther>>

\* line 315: self._flush_timer = None
StopClearTimer ==
    /\ wthreads.stop = "s_clear"
    /\ flush_timer' = 0
    /\ wthreads' = [wthreads EXCEPT !.stop = "s_join"]
    /\ UNCHANGED <<w_running, observer, event_queue, event_path, timers,
                   elapsed, flushes, api_calls, manager, WOther>>

\* a stop() that returns after the joins, without the flush of line 328
StopObserverNoFlush ==
    /\ wthreads.stop = "s_join"
    /\ observer' = "stopped"
    /\ wthreads' = [wthreads EXCEPT !.stop = "returned"]
    /\ UNCHANGED <<w_running, event_queue, event_path, flush_timer, timers,
                   elapsed, flushes, api_calls, manager, WOther>>

\* lines 318-328: observer.stop() and join(timeout=5.0), the join of the
\* signal thread, then the call of _flush_events.  The observer thread takes
\* no further event; it may still be in the flush a full queue forced
StopObserver ==
    /\ wthreads.stop = "s_join"
    /\ observer' = "stopped"
    /\ wthreads' = [wthreads EXCEPT !.stop = "flush"]
    /\ UNCHANGED <<w_running, event_queue, event_path, flush_timer, timers,
                   elapsed, flushes, api_calls, manager, WOther>>

WatcherNext ==
    \/ WatcherStart
    \/ RawEvent
    \/ RawEventRaced
    \/ \E t \in 1..MaxEvents : TimerFire(t)
    \/ \E f \in Flushers : FlushEvents(f)
    \/ \E f \in Flushers : OnChanges(f)
    \/ FlushNow
    \/ StopEnter
    \/ StopCancelTimer
    \/ StopClearTimer
    \/ StopObserver

SpecWatcher == WatcherInit /\ [][WatcherNext]_vars

\* a step of the thread f after it was started: the interval of a timer
\* passes, _flush_events goes on, stop() goes on
ThreadStep(f) ==
    \/ f.by = "timer" /\ TimerFire(f.timer)
    \/ FlushEvents(f)
    \/ OnChanges(f)
    \/ f.by = "stop" /\ (StopCancelTimer \/ StopClearTimer \/ StopObserver)

\* every thread of the watcher runs whenever it can; no event and no call
\* of start(), stop() or flush_now() has to come
WatcherFairness == \A f \in Flushers : WF_vars(ThreadStep(f))

SpecWatcherFair == WatcherInit /\ [][WatcherNext]_vars /\ WatcherFairness

\* one _flush_events call on a queue of any events: the flush_now caller is
\* past the cancellation of the timer
FlushInit ==
    /\ event_path \in SeqsUpTo(WatchedPaths \cup {"c.py"}, MaxQueued)
    /\ event_queue = [i \in DOMAIN event_path |-> i]
    /\ timers = [i \in DOMAIN event_path |-> "finished"]
    /\ w_running = TRUE
    /\ observer = "alive"
    /\ flush_timer = 0
    /\ elapsed = 0
    /\ wthreads = [IdleThreads EXCEPT !.sig = "flush"]
    /\ flushes = <<>>
    /\ api_calls = "start"
    /\ manager = NoManager
    /\ EngineIdle
    /\ WRest

FlushNext ==
    \/ FlushEvents([by |-> "sig", timer |-> 0])
    \/ OnChanges([by |-> "sig", timer |-> 0])

SpecFlush == FlushInit /\ [][FlushNext]_vars

(***************************************************************************)
(* Claims about the file watcher.                                          *)
(***************************************************************************)
\* a start() on a running watcher or a stop() on one that does not run
NoopCall ==
    /\ api_calls' # api_calls
    /\ \/ api_calls' = "start" /\ w_running
       \/ api_calls' = "stop" /\ ~w_running

Events(q) == {q[i] : i \in DOMAIN q}

\* C32: every batch handed to on_changes holds at most one event per path,
\* the most recently queued one of that path among the events the flush
\* removed; a flush of an empty queue does not call on_changes.
C32_BatchLatestPerPath ==
    /\ \A i \in DOMAIN flushes :
         LET fl == flushes[i] IN
         /\ fl.input # <<>> /\ fl.batch # <<>>
         /\ Events(fl.batch) \subseteq Events(fl.input)
         /\ \A j, k \in DOMAIN fl.batch :
              event_path[fl.batch[j]] = event_path[fl.batch[k]] => j = k
         /\ \A j \in DOMAIN fl.batch : \A e \in Events(fl.input) :
              event_path[e] = event_path[fl.batch[j]] => e <= fl.batch[j]
    /\ \A f \in Flushers :
         (f.by = "timer" => f.timer \in DOMAIN timers) /\ PcOf(f) = "call" =>
             \E i \in DOMAIN flushes :
                 flushes[i].by = f.by /\ flushes[i].timer = f.timer
                     /\ ~flushes[i].handed

\* a batch of two events handed to on_changes for three queued events, the
\* first and the last of one path
C32_Witness ==
    \E i \in DOMAIN flushes :
        /\ flushes[i].handed
        /\ Len(flushes[i].input) = 3
        /\ Len(flushes[i].batch) = 2
        /\ event_path[flushes[i].input[1]] = event_path[flushes[i].input[3]]

\* C33: a flush started by the debounce timer never hands over an event
\* earlier than debounce_ms after that event was queued.
C33_TimerFlushNeverEarly ==
    \A i \in DOMAIN flushes : flushes[i].by = "timer" => ~flushes[i].early

\* C34: in every reachable state the queue holds at most MAX_QUEUE_SIZE
\* events.
C34_QueueBounded == Len(event_queue) <= MaxQueueSize

\* the queue never holds more than one event above MAX_QUEUE_SIZE
QueueBoundedPlusOne == Len(event_queue) <= MaxQueueSize + 1

\* the number of positions of q that hold e
Count(q, e) == Cardinality({i \in DOMAIN q : q[i] = e})

RECURSIVE SumInputs(_, _)
\* the number of times e occurs in the inputs of the first n flushes
SumInputs(e, n) ==
    IF n = 0 THEN 0 ELSE Count(flushes[n].input, e) + SumInputs(e, n - 1)

\* C35: every event appended to the queue is removed by exactly one flush:
\* none is in the input of two flushes, and none leaves the queue without
\* its path being in a batch that is handed to on_changes.
C35_RemovedByOneFlush ==
    /\ \A e \in DOMAIN event_path :
         Count(event_queue, e) + SumInputs(e, Len(flushes)) = 1
    /\ \A i \in DOMAIN flushes :
         LET fl == flushes[i] IN
         /\ \A e \in Events(fl.input) :
              \E j \in DOMAIN fl.batch : event_path[fl.batch[j]] = event_path[e]
         /\ fl.handed \/ PcOf([by |-> fl.by, timer |-> fl.timer]) = "call"

\* three events removed by two flushes of different threads, both batches
\* handed to on_changes
C35_Witness ==
    /\ Len(event_path) = 3
    /\ event_queue = <<>>
    /\ Len(flushes) = 2
    /\ flushes[1].by # flushes[2].by
    /\ flushes[1].handed /\ flushes[2].handed

\* a timer that waits for its interval or a thread that is about to run
\* _flush_events: the timer's thread, a flush_now, a full queue's flush or
\* a stop() before its flush
FlushPending ==
    \/ \E t \in DOMAIN timers : timers[t] \in {"waiting", "flush"}
    \/ wthreads.obs = "flush"
    \/ wthreads.sig = "flush"
    \/ wthreads.stop \in {"s_cancel", "s_clear", "s_join", "flush"}

\* no event is queued and every batch has been handed to on_changes
AllHandedOver ==
    /\ event_queue = <<>>
    /\ \A i \in DOMAIN flushes : flushes[i].handed

\* C36: once events stop arriving, every event in the queue is eventually
\* handed to on_changes, and no state has a non-empty queue with neither a
\* pending timer nor a flush in progress.
C36_EventuallyFlushed ==
    /\ [](event_queue # <<>> => FlushPending)
    /\ <>[]AllHandedOver

\* stop() has cancelled the only timer and has not flushed yet: the queue
\* is not empty and no timer is pending
C36_Witness ==
    /\ event_queue # <<>>
    /\ wthreads.stop = "s_join"
    /\ wthreads.sig = "returned"
    /\ \A t \in DOMAIN timers : timers[t] \notin {"waiting", "flush"}

(***************************************************************************)
(* WatcherManager, watcher/manager.py: on_changes of its FileWatcher is    *)
(* _handle_changes, which runs in the thread that flushed, and stop()      *)
(* closes the indexer after FileWatcher.stop() has returned.               *)
(***************************************************************************)
\* the flush of f that process_changes is working on
ProcessedBy(f) ==
    CHOOSE i \in DOMAIN flushes :
        /\ flushes[i].by = f.by /\ flushes[i].timer = f.timer
        /\ flushes[i].indexed = "running"

\* WatcherManager.start(), lines 133-170: the indexer and the watcher are
\* made and the watcher is started; nothing happens when the manager runs
ManagerStart ==
    /\ wthreads.stop = "idle"
    /\ Called("start")
    /\ IF manager.running
       THEN UNCHANGED <<manager, w_running, observer>>
       ELSE /\ manager' = [running |-> TRUE, indexer |-> TRUE, closed |-> FALSE]
            /\ w_running' = TRUE
            /\ observer' = "alive"
    /\ UNCHANGED <<event_queue, event_path, flush_timer, timers, elapsed,
                   wthreads, flushes, WOther>>

\* WatcherManager.stop(), lines 172-184, up to line 313 of the
\* FileWatcher.stop() it calls
ManagerStop ==
    /\ wthreads.stop = "idle"
    /\ Called("stop")
    /\ IF manager.running
       THEN /\ manager' = [manager EXCEPT !.running = FALSE]
            /\ w_running' = FALSE
            /\ wthreads' = [wthreads EXCEPT
                  !.stop = IF flush_timer # 0 THEN "s_cancel" ELSE "s_join"]
       ELSE UNCHANGED <<manager, w_running, wthreads>>
    /\ UNCHANGED <<observer, event_queue, event_path, flush_timer, timers,
                   elapsed, flushes, WOther>>

\* _handle_changes, lines 66-72, called as on_changes by _flush_events (line
\* 221): without an indexer it returns, else it calls process_changes
HandleChanges(f) ==
    /\ f.by = "timer" => f.timer \in DOMAIN timers
    /\ PcOf(f) = "call"
    /\ flushes' = [flushes EXCEPT
                     ![HeldBy(f)].handed = TRUE,
                     ![HeldBy(f)].indexed =
                         IF manager.indexer THEN "running" ELSE "skipped"]
    /\ MoveTo(f, IF manager.indexer THEN "process" ELSE AfterFlush(f))
    /\ UNCHANGED <<w_running, observer, event_queue, event_path, flush_timer,
                   elapsed, api_calls, manager, WOther>>

\* line 72: process_changes returns; the rest of _handle_changes keeps
\* statistics
ProcessChanges(f) ==
    /\ f.by = "timer" => f.timer \in DOMAIN timers
    /\ PcOf(f) = "process"
    /\ flushes' = [flushes EXCEPT ![ProcessedBy(f)].indexed = "done"]
    /\ MoveTo(f, AfterFlush(f))
    /\ UNCHANGED <<w_running, observer, event_queue, event_path, flush_timer,
                   elapsed, api_calls, manager, WOther>>

\* WatcherManager.stop(), lines 185-189: FileWatcher.stop() has returned;
\* self._indexer.close()
CloseIndexer ==
    /\ wthreads.stop = "returned"
    /\ manager.indexer
    /\ manager' = [manager EXCEPT !.closed = TRUE]
    /\ wthreads' = [wthreads EXCEPT !.stop = "m_clear"]
    /\ UNCHANGED <<w_running, observer, event_queue, event_path, flush_timer,
                   timers, elapsed, flushes, api_calls, WOther>>

\* WatcherManager.stop(), lines 190-200: self._indexer = None and the rest
ClearIndexer ==
    /\ wthreads.stop = "m_clear"
    /\ manager' = [manager EXCEPT !.indexer = FALSE]
    /\ wthreads' = [wthreads EXCEPT !.stop = "m_done"]
    /\ UNCHANGED <<w_running, observer, event_queue, event_path, flush_timer,
                   timers, elapsed, flushes, api_calls, WOther>>

ManagerNext ==
    \/ ManagerStart
    \/ RawEvent
    \/ RawEventRaced
    \/ \E t \in 1..MaxEvents : TimerFire(t)
    \/ \E f \in Flushers : FlushEvents(f)
    \/ \E f \in Flushers : HandleChanges(f)
    \/ \E f \in Flushers : ProcessChanges(f)
    \/ ManagerStop
    \/ StopCancelTimer
    \/ StopClearTimer
    \/ StopObserver
    \/ CloseIndexer
    \/ ClearIndexer

SpecManager == WatcherInit /\ [][ManagerNext]_vars

\* a thread is inside process_changes
ProcessRunning ==
    \E f \in Flushers :
        (f.by = "timer" => f.timer \in DOMAIN timers) /\ PcOf(f) = "process"

\* the events FileWatcher.stop() flushed have been processed once the
\* indexer is closed
StopFlushProcessed ==
    manager.closed =>
        \A i \in DOMAIN flushes :
            flushes[i].by = "stop" => flushes[i].indexed = "done"

\* C37: process_changes is never running while or after stop() closes the
\* indexer, and the events the watcher flushes during stop() are processed
\* by the indexer before it is closed.
C37_NoProcessingAfterClose ==
    /\ ~(manager.closed /\ ProcessRunning)
    /\ StopFlushProcessed

====
